---- MODULE Spec2Model ----
(***************************************************************************)
(* bril2riscv: the middle end of the compiler.                             *)
(*                                                                         *)
(*   bril-frontend/src/json.rs   flat program records                      *)
(*   bril-ir/src/cfg.rs          CFG builder (split_into_blocks,           *)
(*                               wire_block_edges)                         *)
(*   bril-ir/src/ssa.rs          immediate dominators, dominance           *)
(*                               frontiers, dominator tree                 *)
(*                                                                         *)
(* One flat function is taken through the pipeline of cli/src/main.rs:     *)
(* IrModule::try_from (convert_to_cfg) and then SSAFormation::new.         *)
(* Block indices are 0-based as in the source; a Vec is a sequence, so     *)
(* block i is blocks[i + 1].                                               *)
(***************************************************************************)
EXTENDS Integers, Sequences, FiniteSets, TLC

VARIABLES
    bril_func,              \* the flat function: its instrs (the input, never written)
    func,                   \* the IrFunction under construction: blocks, label_to_idx
    pc,                     \* position in the pipeline
    cfg_result,             \* what convert_to_cfg gave: "pending", "Ok", "Err", "panic"
    stopped_in,             \* the function that panicked or never returned, "" if none
    idom_vec,               \* compute_idom's local vector
    idom,                   \* SSAFormation.idom
    dom_frontier,           \* SSAFormation.dom_frontier
    dom_tree,               \* SSAFormation.dom_tree
    passes,                 \* PassManager.passes: what each registered pass reports
    pm_func,                \* PassManager::run: index of the function in the outer loop
    pm_pass,                \* PassManager::run: index of the pass in the inner loop
    ran,                    \* for each function, the passes run on it, in order
    function,               \* the IrFunction handed to run_on_function
    history,                \* the passes run on it so far, each with the function before
    opt_pc,                 \* "run" while passes may run, then "done" or "panic"
    overflow_checks,        \* whether the build traps on integer overflow
    mf,                     \* the MachineFunc: its blocks, each a list of machine instructions
    intervals,              \* build_intervals: VReg -> Interval
    live_intervals,         \* linear_scan: the LiveIntervals, sorted by start
    active_alloc_intervals, \* linear_scan: the intervals that hold a register
    free_regs,              \* linear_scan: the pool of physical registers
    ra_pc,                  \* "build", "sort", "scan", then "done"
    ra_i,                   \* linear_scan: index of the interval the loop is at
    heap,                   \* state.heap: memory (base -> cells) and base_num_counter
    state_env,              \* state.env: the pointers main holds in its variables
    freed,                  \* the bases a free returned Ok for (history)
    last_op,                \* the last instruction: op, key, res, and the memory before it
    heap_pc,                \* "run", "executed", then "returned"
    main_result,            \* what execute_main returned, "none" before it has
    instruction_count,      \* state.instruction_count
    ptr_overflow_checks,    \* whether the build checks `+` for overflow
    io_ok,                  \* whether flushing and the profiling write succeed
    machine_func,           \* the MachineFunc emitted: the instructions of its block
    func_intervals,         \* func_by_intervals[func.name]: VReg -> mark_spilled, phy_reg
    spill_slots,            \* emit_riscv: VReg -> offset of its stack slot
    stack_frame,            \* emit_riscv: the spill bytes counted so far
    asm,                    \* the lines printed so far
    emit_pc,                \* "slots", "label", "instrs", then "done" or "panic"
    emit_i,                 \* index of the instruction to print next
    functions,              \* ir_module.functions, the functions analysed in turn
    func_k,                 \* index of the function under analysis
    analysed,               \* what the analysis of each function left in the formation (history)
    environment,            \* state.env: the Environment (pointer, frame size, stack_pointers, env)
    frames,                 \* for each call in progress, what it set and what its caller held (history)
    env_op,                 \* the Environment operation that ran last
    got,                    \* what the last get returned: <<>> or <<[ident, value]>>
    popped                  \* the call the last pop_frame ended: <<>> or <<frame>>

cfg_vars == <<bril_func, func, pc, cfg_result, stopped_in, idom_vec, idom,
              dom_frontier, dom_tree>>

pm_vars == <<passes, pm_func, pm_pass, ran>>

opt_vars == <<function, history, opt_pc, overflow_checks>>

ra_vars == <<mf, intervals, live_intervals, active_alloc_intervals,
             free_regs, ra_pc, ra_i>>

heap_vars == <<heap, state_env, freed, last_op, heap_pc, main_result,
               instruction_count, ptr_overflow_checks, io_ok>>

emit_vars == <<machine_func, func_intervals, spill_slots, stack_frame, asm,
               emit_pc, emit_i>>

ssa_vars == <<functions, func_k, analysed>>

env_vars == <<environment, frames, env_op, got, popped>>

\* what the CFG/SSA pipeline leaves alone
not_cfg_vars == <<pm_vars, opt_vars, ra_vars, heap_vars, emit_vars,
                  ssa_vars, env_vars>>

\* what the pass manager leaves alone
not_pm_vars == <<cfg_vars, opt_vars, ra_vars, heap_vars, emit_vars,
                 ssa_vars, env_vars>>

\* what the optimization passes leave alone
not_opt_vars == <<cfg_vars, pm_vars, ra_vars, heap_vars, emit_vars,
                  ssa_vars, env_vars>>

\* what the register allocator leaves alone
not_ra_vars == <<cfg_vars, pm_vars, opt_vars, heap_vars, emit_vars,
                 ssa_vars, env_vars>>

\* what the interpreter's heap leaves alone
not_heap_vars == <<cfg_vars, pm_vars, opt_vars, ra_vars, emit_vars,
                   ssa_vars, env_vars>>

\* what the emitter leaves alone
not_emit_vars == <<cfg_vars, pm_vars, opt_vars, ra_vars, heap_vars,
                   ssa_vars, env_vars>>

\* what SSAFormation::new over a module leaves alone
not_ssa_vars == <<cfg_vars, pm_vars, opt_vars, ra_vars, heap_vars,
                  emit_vars, env_vars>>

\* what the interpreter's Environment leaves alone
not_env_vars == <<cfg_vars, pm_vars, opt_vars, ra_vars, heap_vars,
                  emit_vars, ssa_vars>>

vars == <<cfg_vars, pm_vars, opt_vars, ra_vars, heap_vars, emit_vars,
          ssa_vars, env_vars>>

\* A component that is not running holds these values.
CfgIdle ==
    /\ bril_func = <<>>
    /\ func = [blocks |-> <<>>, label_to_idx |-> <<>>]
    /\ pc = "off"
    /\ cfg_result = "pending"
    /\ stopped_in = ""
    /\ idom_vec = <<>>
    /\ idom = <<>>
    /\ dom_frontier = <<>>
    /\ dom_tree = <<>>

PmIdle ==
    /\ passes = <<>>
    /\ pm_func = 0
    /\ pm_pass = 0
    /\ ran = <<>>

OptIdle ==
    /\ function = [blocks |-> <<>>, label_to_idx |-> <<>>]
    /\ history = <<>>
    /\ opt_pc = "off"
    /\ overflow_checks = FALSE

RaIdle ==
    /\ mf = <<>>
    /\ intervals = <<>>
    /\ live_intervals = <<>>
    /\ active_alloc_intervals = <<>>
    /\ free_regs = <<>>
    /\ ra_pc = "off"
    /\ ra_i = 0

HeapIdle ==
    /\ heap = [memory |-> <<>>, base_num_counter |-> 0]
    /\ state_env = {}
    /\ freed = {}
    /\ last_op = <<>>
    /\ heap_pc = "off"
    /\ main_result = "none"
    /\ instruction_count = 0
    /\ ptr_overflow_checks = FALSE
    /\ io_ok = FALSE

EmitIdle ==
    /\ machine_func = <<>>
    /\ func_intervals = <<>>
    /\ spill_slots = <<>>
    /\ stack_frame = 0
    /\ asm = <<>>
    /\ emit_pc = "off"
    /\ emit_i = 0

SsaIdle ==
    /\ functions = <<>>
    /\ func_k = 0
    /\ analysed = <<>>

EnvIdle ==
    /\ environment = [current_pointer |-> 0, current_frame_size |-> 0, stack_pointers |-> <<>>, env |-> <<>>]
    /\ frames = <<>>
    /\ env_op = "off"
    /\ got = <<>>
    /\ popped = <<>>

\* every component but the CFG/SSA pipeline is idle
OnlyCfg ==
    /\ PmIdle
    /\ OptIdle
    /\ RaIdle
    /\ HeapIdle
    /\ EmitIdle
    /\ SsaIdle
    /\ EnvIdle

\* every component but the pass manager is idle
OnlyPm ==
    /\ CfgIdle
    /\ OptIdle
    /\ RaIdle
    /\ HeapIdle
    /\ EmitIdle
    /\ SsaIdle
    /\ EnvIdle

\* every component but the optimization passes is idle
OnlyOpt ==
    /\ CfgIdle
    /\ PmIdle
    /\ RaIdle
    /\ HeapIdle
    /\ EmitIdle
    /\ SsaIdle
    /\ EnvIdle

\* every component but the register allocator is idle
OnlyRa ==
    /\ CfgIdle
    /\ PmIdle
    /\ OptIdle
    /\ HeapIdle
    /\ EmitIdle
    /\ SsaIdle
    /\ EnvIdle

\* every component but the interpreter's heap is idle
OnlyHeap ==
    /\ CfgIdle
    /\ PmIdle
    /\ OptIdle
    /\ RaIdle
    /\ EmitIdle
    /\ SsaIdle
    /\ EnvIdle

\* every component but the emitter is idle
OnlyEmit ==
    /\ CfgIdle
    /\ PmIdle
    /\ OptIdle
    /\ RaIdle
    /\ HeapIdle
    /\ SsaIdle
    /\ EnvIdle

\* every component but SSAFormation::new over a module is idle
OnlySsa ==
    /\ CfgIdle
    /\ PmIdle
    /\ OptIdle
    /\ RaIdle
    /\ HeapIdle
    /\ EmitIdle
    /\ EnvIdle

\* every component but the interpreter's Environment is idle
OnlyEnv ==
    /\ CfgIdle
    /\ PmIdle
    /\ OptIdle
    /\ RaIdle
    /\ HeapIdle
    /\ EmitIdle
    /\ SsaIdle

----------------------------------------------------------------------------
(* Bounds of the model. *)

\* longest flat instruction sequence drawn over CoreInstrs
MaxInstrs == 3

\* most blocks of a one-terminator-per-block program
MaxBlocks == 3

----------------------------------------------------------------------------
(* Sequence helpers. *)

SeqToSet(s) == {s[i] : i \in 1..Len(s)}

Count(s, x) == Cardinality({i \in 1..Len(s) : s[i] = x})

Contains(s, x) == \E i \in 1..Len(s) : s[i] = x

\* all orders in which the elements of S can be visited
RECURSIVE Orders(_)
Orders(S) ==
    IF S = {} THEN {<<>>}
    ELSE UNION {{<<x>> \o o : o \in Orders(S \ {x})} : x \in S}

----------------------------------------------------------------------------
(* Flat instructions (bril-frontend).  An Option<String> is a sequence of  *)
(* length at most one.                                                     *)

\* the serde tags of enum Op
BaseOps ==
    {"add", "sub", "mul", "div", "eq", "lt", "gt", "le", "ge", "and", "or",
     "not", "id", "const", "br", "jmp", "call", "ret", "print", "nop"}

BinaryOps ==
    {"add", "sub", "mul", "div", "eq", "lt", "gt", "le", "ge", "and", "or"}

\* Instruction::Label { label }
Label(l) ==
    [op |-> "label", dest |-> <<>>, args |-> <<>>, labels |-> <<l>>,
     funcs |-> <<>>, value |-> <<>>]

\* Instruction::Op(op)
MkOp(o, d, a, ls, fs, v) ==
    [op |-> o, dest |-> d, args |-> a, labels |-> ls, funcs |-> fs,
     value |-> v]

Jmp(l) == MkOp("jmp", <<>>, <<>>, <<l>>, <<>>, <<>>)

Br(c, t, e) == MkOp("br", <<>>, <<c>>, <<t, e>>, <<>>, <<>>)

Ret == MkOp("ret", <<>>, <<>>, <<>>, <<>>, <<>>)

CallOp(d) == MkOp("call", d, <<"a">>, <<>>, <<"f">>, <<>>)

\* one well-formed record of each op of the base set
OpInstr(o) ==
    CASE o \in BinaryOps -> MkOp(o, <<"d">>, <<"a", "b">>, <<>>, <<>>, <<>>)
      [] o = "not"   -> MkOp(o, <<"d">>, <<"a">>, <<>>, <<>>, <<>>)
      [] o = "id"    -> MkOp(o, <<"d">>, <<"a">>, <<>>, <<>>, <<>>)
      [] o = "const" -> MkOp(o, <<"d">>, <<>>, <<>>, <<>>, <<1>>)
      [] o = "br"    -> Br("c", "A", "B")
      [] o = "jmp"   -> Jmp("A")
      [] o = "call"  -> CallOp(<<"d">>)
      [] o = "ret"   -> Ret
      [] o = "print" -> MkOp(o, <<>>, <<"a">>, <<>>, <<>>, <<>>)
      [] o = "nop"   -> MkOp(o, <<>>, <<>>, <<>>, <<>>, <<>>)

IsLabel(ins) == ins.op = "label"

\* the ops of a flat instruction sequence, labels left out
RECURSIVE OpsOf(_)
OpsOf(instrs) ==
    IF instrs = <<>> THEN <<>>
    ELSE (IF IsLabel(Head(instrs)) THEN <<>> ELSE <<Head(instrs)>>)
         \o OpsOf(Tail(instrs))

----------------------------------------------------------------------------
(* IR instructions and the IrFunction (bril-ir/src/cfg.rs). *)

MkIr(t, d, a, ls, fs, v) ==
    [tag |-> t, dest |-> d, args |-> a, labels |-> ls, funcs |-> fs,
     value |-> v]

\* IrBasicBlock as add_block creates it
NewBlock(label) ==
    [label |-> label, instrs |-> <<>>, preds |-> <<>>, succs |-> <<>>]

\* IrFunction::new
NewFunction == [blocks |-> <<>>, label_to_idx |-> <<>>]

NumBlocks(f) == Len(f.blocks)

BlockIds(f) == 0..(NumBlocks(f) - 1)

BlockAt(f, i) == f.blocks[i + 1]

\* HashMap::insert on label_to_idx: a label seen before is overwritten
MapInsert(m, k, v) ==
    [x \in (DOMAIN m) \cup {k} |-> IF x = k THEN v ELSE m[x]]

\* IrFunction::add_block: the new block's index is the old length
AddBlock(f, label) ==
    [blocks |-> Append(f.blocks, NewBlock(label)),
     label_to_idx |-> MapInsert(f.label_to_idx, label, Len(f.blocks))]

\* IrFunction::add_edge with the succs push left out (mutant)
AddEdgeOneSided(f, from, to) ==
    [f EXCEPT !.blocks[to + 1].preds = Append(@, from)]

\* IrFunction::add_edge
AddEdge(f, from, to) ==
    [f EXCEPT !.blocks =
        [[@ EXCEPT ![from + 1].succs = Append(@, to)]
            EXCEPT ![to + 1].preds = Append(@, from)]]

\* IrFunction::append_instr
AppendInstr(f, idx, ir) ==
    [f EXCEPT !.blocks[idx + 1].instrs = Append(@, ir)]

\* IrFunction::block_index: Option<usize>
BlockIndex(f, label) ==
    IF label \in DOMAIN f.label_to_idx THEN <<f.label_to_idx[label]>> ELSE <<>>

IsTerminator(ir) == ir.tag \in {"Br", "Jmp", "Ret"}

----------------------------------------------------------------------------
(* split_into_blocks: the match on Op.  The result is <<ir>> for a lowered  *)
(* op and <<>> where the code panics (an unwrap of None, an index into an  *)
(* empty Vec, the `other =>` arm).                                         *)

\* the IrInstruction variant each arm of the match builds
IrTag(o) ==
    CASE o = "add" -> "Add" [] o = "sub" -> "Sub" [] o = "mul" -> "Mul"
      [] o = "div" -> "Div" [] o = "eq" -> "Eq"   [] o = "lt" -> "Lt"
      [] o = "gt" -> "Gt"   [] o = "le" -> "Le"   [] o = "ge" -> "Ge"
      [] o = "and" -> "And" [] o = "or" -> "Or"   [] o = "not" -> "Not"
      [] o = "id" -> "Assign" [] o = "const" -> "Const" [] o = "br" -> "Br"
      [] o = "jmp" -> "Jmp" [] o = "call" -> "Call" [] o = "ret" -> "Ret"
      [] o = "print" -> "Print"

\* the Op::Call arm: funcs[0] and Some(dest.as_ref().unwrap().clone())
LowerCall(op) ==
    IF op.dest = <<>> \/ op.funcs = <<>> THEN <<>>
    ELSE <<MkIr("Call", op.dest, op.args, <<>>, <<op.funcs[1]>>, <<>>)>>

LowerOp(op) ==
    CASE op.op = "const" ->
            <<MkIr("Const", op.dest, <<>>, <<>>, <<>>, op.value)>>
      [] op.op \in BinaryOps ->
            <<MkIr(IrTag(op.op), op.dest, <<op.args[1], op.args[2]>>,
                   <<>>, <<>>, <<>>)>>
      [] op.op \in {"not", "id"} ->
            IF op.args = <<>> THEN <<>>
            ELSE <<MkIr(IrTag(op.op), op.dest, <<op.args[1]>>,
                        <<>>, <<>>, <<>>)>>
      [] op.op = "call" -> LowerCall(op)
      [] op.op = "br" ->
            IF op.args = <<>> THEN <<>>
            ELSE <<MkIr("Br", <<>>, <<op.args[1]>>,
                        <<op.labels[1], op.labels[2]>>, <<>>, <<>>)>>
      [] op.op = "jmp" ->
            IF op.labels = <<>> THEN <<>>
            ELSE <<MkIr("Jmp", <<>>, <<>>, <<op.labels[1]>>, <<>>, <<>>)>>
      [] op.op = "ret" -> <<MkIr("Ret", <<>>, op.args, <<>>, <<>>, <<>>)>>
      [] op.op = "print" -> <<MkIr("Print", <<>>, op.args, <<>>, <<>>, <<>>)>>
      [] OTHER -> <<>>

\* the loop of split_into_blocks from instruction i on; st is the function
\* built so far, the current block index and whether a panic stopped it
RECURSIVE SplitFrom(_, _, _)
SplitFrom(st, instrs, i) ==
    IF i > Len(instrs) \/ st.panicked THEN st
    ELSE LET ins == instrs[i] IN
         IF IsLabel(ins)
         THEN SplitFrom([st EXCEPT !.f = AddBlock(st.f, ins.labels[1]),
                                   !.current_idx = Len(st.f.blocks)],
                        instrs, i + 1)
         ELSE LET ir == LowerOp(ins) IN
              IF ir = <<>>
              THEN [st EXCEPT !.panicked = TRUE]
              ELSE SplitFrom([st EXCEPT !.f = AppendInstr(st.f, st.current_idx,
                                                          ir[1])],
                             instrs, i + 1)

\* split_into_blocks(func, bril_func): the entry block first
SplitIntoBlocksOf(f, instrs) ==
    SplitFrom([f |-> AddBlock(f, "entry"), current_idx |-> Len(f.blocks),
               panicked |-> FALSE],
              instrs, 1)

----------------------------------------------------------------------------
(* wire_block_edges. *)

\* the guard of the fall-through arm
FallsThrough(f, curr) == curr + 1 < NumBlocks(f) - 1

\* one iteration of the loop over curr_block_idx
WireOne(st, curr) ==
    LET f == st.f
        instrs == BlockAt(f, curr).instrs
    IN  IF instrs = <<>> THEN st
        ELSE LET terminator == instrs[Len(instrs)] IN
             CASE terminator.tag = "Br" ->
                    LET then_idx == BlockIndex(f, terminator.labels[1])
                        else_idx == BlockIndex(f, terminator.labels[2])
                    IN  IF then_idx = <<>> \/ else_idx = <<>>
                        THEN [st EXCEPT !.panicked = TRUE]
                        ELSE [st EXCEPT !.f =
                                AddEdge(AddEdge(f, curr, then_idx[1]),
                                        curr, else_idx[1])]
               [] terminator.tag = "Jmp" ->
                    LET target_idx == BlockIndex(f, terminator.labels[1])
                    IN  IF target_idx = <<>>
                        THEN [st EXCEPT !.panicked = TRUE]
                        ELSE [st EXCEPT !.f = AddEdge(f, curr, target_idx[1])]
               [] terminator.tag = "Ret" -> st
               [] OTHER ->
                    IF FallsThrough(f, curr)
                    THEN [st EXCEPT !.f = AddEdge(f, curr, curr + 1)]
                    ELSE st

RECURSIVE WireFrom(_, _)
WireFrom(st, curr) ==
    IF curr >= NumBlocks(st.f) \/ st.panicked THEN st
    ELSE WireFrom(WireOne(st, curr), curr + 1)

WireBlockEdgesOf(f) == WireFrom([f |-> f, panicked |-> FALSE], 0)

----------------------------------------------------------------------------
(* compute_idom (bril-ir/src/ssa.rs). *)

\* usize::MAX, "the idom is an unknown for now"; here the largest integer
\* the checker represents: all that the code uses of it is that it differs
\* from, and is greater than, every block index
USIZE_MAX == 2147483647

\* vec![usize::MAX; n] with idom_vec[0] = 0
IdomVecInit(n) == [i \in 1..n |-> IF i = 1 THEN 0 ELSE USIZE_MAX]

\* the two fingers are a deterministic walk over at most (n+1)^2 pairs: a
\* walk longer than that has repeated a pair and never ends
FingerFuel(v) == (Len(v) + 1) * (Len(v) + 1)

\* the two-finger loop climbing the finger of the smaller index (mutant)
RECURSIVE FingersClimbSmaller(_, _, _, _)
FingersClimbSmaller(v, finger1, finger2, fuel) ==
    IF finger1 = finger2 THEN [status |-> "ok", at |-> finger1]
    ELSE IF fuel = 0 THEN [status |-> "hang", at |-> finger1]
    ELSE IF finger1 < finger2
         THEN FingersClimbSmaller(v, v[finger1 + 1], finger2, fuel - 1)
         ELSE FingersClimbSmaller(v, finger1, v[finger2 + 1], fuel - 1)

\* the `while finger1 != finger2` loop: "ok" with the meeting block, "hang"
\* when the loop never ends, "panic" on an index out of bounds
RECURSIVE Fingers(_, _, _, _)
Fingers(v, finger1, finger2, fuel) ==
    IF finger1 = finger2 THEN [status |-> "ok", at |-> finger1]
    ELSE IF fuel = 0 THEN [status |-> "hang", at |-> finger1]
    ELSE IF finger1 > finger2
         THEN IF finger1 >= Len(v) THEN [status |-> "panic", at |-> finger1]
              ELSE Fingers(v, v[finger1 + 1], finger2, fuel - 1)
         ELSE IF finger2 >= Len(v) THEN [status |-> "panic", at |-> finger2]
              ELSE Fingers(v, finger1, v[finger2 + 1], fuel - 1)

\* `for p in others`: new_idom is intersected with each in turn
RECURSIVE IntersectAll(_, _, _)
IntersectAll(v, others, r) ==
    IF others = <<>> \/ r.status # "ok" THEN r
    ELSE IntersectAll(v, Tail(others),
                      Fingers(v, Head(others), r.at, FingerFuel(v)))

\* preds.iter().find(|p| idom_vec[p] != usize::MAX): <<p>> or <<>>
FirstDefined(v, preds) ==
    LET def == SelectSeq(preds, LAMBDA p : v[p + 1] # USIZE_MAX)
    IN  IF def = <<>> THEN <<>> ELSE <<def[1]>>

\* the body of `for b in 1..n` for one b
SweepOne(st, f, b) ==
    LET v == st.vec
        preds == BlockAt(f, b).preds
        first == FirstDefined(v, preds)
    IN  IF preds = <<>> \/ first = <<>> THEN st
        ELSE LET others == SelectSeq(preds,
                     LAMBDA p : p # first[1] /\ v[p + 1] # USIZE_MAX)
                 r == IntersectAll(v, others,
                                   [status |-> "ok", at |-> first[1]])
             IN  IF r.status # "ok" THEN [st EXCEPT !.status = r.status]
                 ELSE IF v[b + 1] # r.at
                      THEN [st EXCEPT !.vec[b + 1] = r.at, !.changed = TRUE]
                      ELSE st

RECURSIVE SweepFrom(_, _, _)
SweepFrom(st, f, b) ==
    IF b >= NumBlocks(f) \/ st.status # "ok" THEN st
    ELSE SweepFrom(SweepOne(st, f, b), f, b + 1)

\* one iteration of the fixed-point `loop`
Sweep(v, f) == SweepFrom([vec |-> v, changed |-> FALSE, status |-> "ok"], f, 1)

\* the final loop: the blocks inserted into self.idom before a panic, if any
IdomInserted(v) ==
    LET unknown == {i \in 1..Len(v) : v[i] = USIZE_MAX}
        stop == IF unknown = {} THEN Len(v)
                ELSE (CHOOSE i \in unknown : \A j \in unknown : i <= j) - 1
    IN  [b \in 0..(stop - 1) |-> v[b + 1]]

----------------------------------------------------------------------------
(* compute_df. *)

\* dom_frontier.entry(runner).or_default(), then push unless contained
DfAdd(df, runner, b) ==
    LET cur == IF runner \in DOMAIN df THEN df[runner] ELSE <<>>
        new == IF Contains(cur, b) THEN cur ELSE Append(cur, b)
    IN  [x \in (DOMAIN df) \cup {runner} |-> IF x = runner THEN new ELSE df[x]]

\* `while runner != idom_b`: the runner walks the idom chain, which repeats
\* after at most as many steps as there are blocks
RECURSIVE RunnerClimb(_, _, _, _, _, _)
RunnerClimb(st, im, runner, idom_b, b, fuel) ==
    IF runner = idom_b THEN st
    ELSE IF fuel = 0 THEN [st EXCEPT !.status = "hang"]
    ELSE RunnerClimb([st EXCEPT !.df = DfAdd(st.df, runner, b)],
                     im, im[runner], idom_b, b, fuel - 1)

RECURSIVE DfPreds(_, _, _, _, _)
DfPreds(st, im, preds, idom_b, b) ==
    IF preds = <<>> \/ st.status # "ok" THEN st
    ELSE DfPreds(RunnerClimb(st, im, Head(preds), idom_b, b,
                             Cardinality(DOMAIN im) + 1),
                 im, Tail(preds), idom_b, b)

\* the body of `for block in &func.blocks`; b is looked up by the label
DfBlock(st, f, im, i) ==
    LET block == BlockAt(f, i)
        b == BlockIndex(f, block.label)[1]
    IN  IF Len(block.preds) < 2 THEN st
        ELSE DfPreds(st, im, block.preds, im[b], b)

RECURSIVE DfFrom(_, _, _, _)
DfFrom(st, f, im, i) ==
    IF i >= NumBlocks(f) \/ st.status # "ok" THEN st
    ELSE DfFrom(DfBlock(st, f, im, i), f, im, i + 1)

ComputeDfOf(f, im) == DfFrom([df |-> <<>>, status |-> "ok"], f, im, 0)

----------------------------------------------------------------------------
(* build_dom_tree. *)

\* the loop body with the `b != p` test left out (mutant)
DomTreeAddAll(dt, b, p) ==
    LET cur == IF p \in DOMAIN dt THEN dt[p] ELSE <<>>
    IN  [x \in (DOMAIN dt) \cup {p} |->
            IF x = p THEN Append(cur, b) ELSE dt[x]]

\* the loop body: if b != p, dom_tree.entry(p).or_default().push(b)
DomTreeAdd(dt, b, p) ==
    IF b # p
    THEN LET cur == IF p \in DOMAIN dt THEN dt[p] ELSE <<>>
         IN  [x \in (DOMAIN dt) \cup {p} |->
                 IF x = p THEN Append(cur, b) ELSE dt[x]]
    ELSE dt

\* `for (&b, &p) in &self.idom`, the keys met in the given order
RECURSIVE BuildDomTreeIn(_, _, _)
BuildDomTreeIn(dt, im, order) ==
    IF order = <<>> THEN dt
    ELSE BuildDomTreeIn(DomTreeAdd(dt, Head(order), im[Head(order)]),
                        im, Tail(order))

----------------------------------------------------------------------------
(* The flat functions the pipeline is run on. *)

\* the instructions short programs are drawn over: both labels, one record
\* of each kind the builder treats differently, and the variants of call,
\* jmp and br ("X" is a label no block carries)
CoreInstrs ==
    {Label("A"), Label("B")}
    \cup {OpInstr(o) : o \in {"add", "print", "nop", "call", "ret", "jmp", "br"}}
    \cup {CallOp(<<>>), Jmp("B"), Jmp("X"), Br("c", "A", "A"),
          Br("c", "X", "A")}

\* one op of every kind of the base set
OneOpPrograms == {<<OpInstr(o)>> : o \in BaseOps}

\* block_labels of the diamond test; block 0 is "entry"
BlockLabels == <<"A", "B", "C", "D", "Exit">>

LabelOfBlock(i) == IF i = 0 THEN "entry" ELSE BlockLabels[i]

\* what a block can end with among n blocks: ret, jmp j, br j k (j <= k)
Targets(n) ==
    {<<>>} \cup {<<j>> : j \in 0..(n - 1)}
           \cup {jk \in (0..(n - 1)) \X (0..(n - 1)) : jk[1] <= jk[2]}

TerminatorOf(t) ==
    CASE Len(t) = 0 -> Ret
      [] Len(t) = 1 -> Jmp(LabelOfBlock(t[1]))
      [] Len(t) = 2 -> Br("c", LabelOfBlock(t[1]), LabelOfBlock(t[2]))

\* the flat function whose block i is the single terminator of ts[i + 1]
RECURSIVE BlocksProgram(_, _)
BlocksProgram(ts, i) ==
    IF i >= Len(ts) THEN <<>>
    ELSE (IF i = 0 THEN <<>> ELSE <<Label(LabelOfBlock(i))>>)
         \o <<TerminatorOf(ts[i + 1])>> \o BlocksProgram(ts, i + 1)

\* diamond_cfg of the tests: 0 -> 1 -> {2, 3} -> 4 -> 5
DiamondProgram ==
    BlocksProgram(<< <<1>>, <<2, 3>>, <<4>>, <<4>>, <<5>>, <<>> >>, 0)

----------------------------------------------------------------------------
(* The pipeline. *)

Init ==
    /\ \/ \E n \in 0..MaxInstrs : bril_func \in [1..n -> CoreInstrs]
       \/ bril_func \in OneOpPrograms
       \/ \E n \in 1..MaxBlocks :
             \E ts \in [1..n -> Targets(n)] : bril_func = BlocksProgram(ts, 0)
       \/ bril_func = DiamondProgram
    /\ func = NewFunction
    /\ pc = "split"
    /\ cfg_result = "pending"
    /\ stopped_in = ""
    /\ idom_vec = <<>>
    /\ idom = <<>>
    /\ dom_frontier = <<>>
    /\ dom_tree = <<>>
    /\ OnlyCfg

\* convert_to_cfg, first half: IrFunction::new and split_into_blocks
SplitIntoBlocks ==
    /\ pc = "split"
    /\ LET st == SplitIntoBlocksOf(NewFunction, bril_func)
       IN  /\ func' = st.f
           /\ IF st.panicked
              THEN /\ pc' = "panic"
                   /\ cfg_result' = "panic"
                   /\ stopped_in' = "split_into_blocks"
              ELSE /\ pc' = "wire"
                   /\ UNCHANGED <<cfg_result, stopped_in>>
    /\ UNCHANGED <<not_cfg_vars, bril_func, idom_vec, idom, dom_frontier, dom_tree>>

\* convert_to_cfg, second half: wire_block_edges and Ok(ir_func)
WireBlockEdges ==
    /\ pc = "wire"
    /\ LET st == WireBlockEdgesOf(func)
       IN  /\ func' = st.f
           /\ IF st.panicked
              THEN /\ pc' = "panic"
                   /\ cfg_result' = "panic"
                   /\ stopped_in' = "wire_block_edges"
              ELSE /\ pc' = "idom"
                   /\ cfg_result' = "Ok"
                   /\ UNCHANGED stopped_in
    /\ UNCHANGED <<not_cfg_vars, bril_func, idom_vec, idom, dom_frontier, dom_tree>>

\* compute_idom up to the fixed-point loop
ComputeIdomStart ==
    /\ pc = "idom"
    /\ idom_vec' = IdomVecInit(NumBlocks(func))
    /\ pc' = "idom_loop"
    /\ UNCHANGED <<not_cfg_vars, bril_func, func, cfg_result, stopped_in, idom, dom_frontier,
                   dom_tree>>

\* an iteration of the fixed-point loop that changes idom_vec (or never
\* returns)
IdomPass ==
    /\ pc = "idom_loop"
    /\ LET st == Sweep(idom_vec, func)
       IN  /\ st.status # "ok" \/ st.changed
           /\ idom_vec' = st.vec
           /\ pc' = CASE st.status = "ok" -> "idom_loop"
                      [] st.status = "hang" -> "hang"
                      [] st.status = "panic" -> "panic"
           /\ stopped_in' = IF st.status = "ok" THEN stopped_in
                            ELSE "compute_idom"
    /\ UNCHANGED <<not_cfg_vars, bril_func, func, cfg_result, idom, dom_frontier, dom_tree>>

\* the iteration that changes nothing, the break, and the copy to self.idom
IdomFinish ==
    /\ pc = "idom_loop"
    /\ LET st == Sweep(idom_vec, func)
       IN  /\ st.status = "ok" /\ ~st.changed
           /\ idom' = IdomInserted(idom_vec)
           /\ IF \E i \in 1..Len(idom_vec) : idom_vec[i] = USIZE_MAX
              THEN pc' = "panic" /\ stopped_in' = "compute_idom"
              ELSE pc' = "df" /\ UNCHANGED stopped_in
    /\ UNCHANGED <<not_cfg_vars, bril_func, func, cfg_result, idom_vec, dom_frontier,
                   dom_tree>>

ComputeDf ==
    /\ pc = "df"
    /\ LET st == ComputeDfOf(func, idom)
       IN  /\ dom_frontier' = st.df
           /\ pc' = IF st.status = "ok" THEN "dom_tree" ELSE "hang"
           /\ stopped_in' = IF st.status = "ok" THEN stopped_in
                            ELSE "compute_df"
    /\ UNCHANGED <<not_cfg_vars, bril_func, func, cfg_result, idom_vec, idom, dom_tree>>

\* build_dom_tree: a HashMap is iterated in an order the code does not fix
BuildDomTree ==
    /\ pc = "dom_tree"
    /\ \E order \in Orders(DOMAIN idom) :
          dom_tree' = BuildDomTreeIn(<<>>, idom, order)
    /\ pc' = "done"
    /\ UNCHANGED <<not_cfg_vars, bril_func, func, cfg_result, stopped_in, idom_vec, idom,
                   dom_frontier>>

Next ==
    \/ SplitIntoBlocks
    \/ WireBlockEdges
    \/ ComputeIdomStart
    \/ IdomPass
    \/ IdomFinish
    \/ ComputeDf
    \/ BuildDomTree

Spec == Init /\ [][Next]_vars

----------------------------------------------------------------------------
(* What the properties below speak of: the CFG as a graph, dominance by    *)
(* its definition (every path from the entry passes through the block).    *)

\* the instructions of all blocks, in block order
RECURSIVE InstrsFrom(_, _)
InstrsFrom(f, i) ==
    IF i >= NumBlocks(f) THEN <<>>
    ELSE BlockAt(f, i).instrs \o InstrsFrom(f, i + 1)

Edge(f, a, b) == Contains(BlockAt(f, b).preds, a)

\* the blocks some path from block 0 reaches without entering block x
RECURSIVE ReachGrow(_, _, _)
ReachGrow(f, R, x) ==
    LET more == {b \in BlockIds(f) \ {x} : \E a \in R : Edge(f, a, b)}
    IN  IF more \subseteq R THEN R ELSE ReachGrow(f, R \cup more, x)

ReachAvoiding(f, x) == ReachGrow(f, {0} \ {x}, x)

AllReachable(f) == ReachAvoiding(f, -1) = BlockIds(f)

Dominates(f, a, b) == a = b \/ b \notin ReachAvoiding(f, a)

StrictDominators(f, b) == {a \in BlockIds(f) \ {b} : Dominates(f, a, b)}

\* the closest proper dominator: the one every other proper dominator
\* dominates
ImmediateDominator(f, b) ==
    CHOOSE d \in StrictDominators(f, b) :
        \A a \in StrictDominators(f, b) : Dominates(f, a, d)

DominanceFrontier(f, n) ==
    {m \in BlockIds(f) :
        /\ \E p \in BlockIds(f) : Edge(f, p, m) /\ Dominates(f, n, p)
        /\ ~(n # m /\ Dominates(f, n, m))}

MapGet(m, k) == IF k \in DOMAIN m THEN m[k] ELSE <<>>

NoDuplicates(s) == \A i, j \in 1..Len(s) : s[i] = s[j] => i = j

CfgBuilt == cfg_result = "Ok"

SplitDone == pc # "split"

IdomDone == CfgBuilt /\ pc \notin {"idom", "idom_loop"}

DfDone == IdomDone /\ pc # "df" /\ stopped_in # "compute_idom"

----------------------------------------------------------------------------
(* C1: for every pair of blocks a, b, b occurs in succs(a) exactly as      *)
(* often as a occurs in preds(b), at every point of the construction and   *)
(* so after all edges have been wired.                                     *)
EdgesMutual ==
    \A a, b \in BlockIds(func) :
        Count(BlockAt(func, a).succs, b) = Count(BlockAt(func, b).preds, a)

\* wiring has finished and a conditional branch with then = else has put
\* the same edge in twice
EdgesMutualWitness ==
    /\ CfgBuilt
    /\ \E a, b \in BlockIds(func) :
          /\ Count(BlockAt(func, a).succs, b) = 2
          /\ Count(BlockAt(func, b).preds, a) = 2

(* C2: after wire_block_edges, every non-empty block whose last            *)
(* instruction is not Br, Jmp or Ret has an edge to the textually next     *)
(* block whenever there is one, the last block of the function included.   *)
FallThroughWired ==
    CfgBuilt =>
        \A curr \in BlockIds(func) :
            LET instrs == BlockAt(func, curr).instrs IN
            (/\ instrs # <<>>
             /\ ~IsTerminator(instrs[Len(instrs)])
             /\ curr + 1 < NumBlocks(func))
            => Contains(BlockAt(func, curr).succs, curr + 1)

(* C3: after wire_block_edges, every empty block has an edge to the        *)
(* textually next block whenever there is one.                             *)
EmptyBlockFallsThrough ==
    CfgBuilt =>
        \A curr \in BlockIds(func) :
            (BlockAt(func, curr).instrs = <<>> /\ curr + 1 < NumBlocks(func))
            => Contains(BlockAt(func, curr).succs, curr + 1)

(* C4: in every block the builder makes, no instruction but the last is a  *)
(* terminator (Br, Jmp or Ret).                                            *)
OnlyLastIsTerminator ==
    \A b \in BlockIds(func) :
        LET instrs == BlockAt(func, b).instrs IN
        \A i \in 1..(Len(instrs) - 1) : ~IsTerminator(instrs[i])

\* a Br or Jmp of some block names a label that no block carries
NamesUnknownLabel ==
    \E b \in BlockIds(func) :
        \E i \in 1..Len(BlockAt(func, b).instrs) :
            LET ir == BlockAt(func, b).instrs[i] IN
            /\ ir.tag \in {"Br", "Jmp"}
            /\ \E l \in SeqToSet(ir.labels) :
                  \A c \in BlockIds(func) : BlockAt(func, c).label # l

(* C5: when the function was split and a Br or Jmp names a label that no   *)
(* block carries, convert_to_cfg ends with an Err as its result.           *)
UnresolvedLabelIsErr ==
    (/\ cfg_result # "pending"
     /\ stopped_in # "split_into_blocks"
     /\ NamesUnknownLabel)
    => cfg_result = "Err"

\* every call record of the input has a dest (a call without one is C7's)
CallsHaveDest ==
    \A i \in 1..Len(bril_func) :
        bril_func[i].op = "call" => bril_func[i].dest # <<>>

(* C6: split_into_blocks succeeds on every flat function over the base op  *)
(* set; the blocks' instruction lists, concatenated, are the input ops in  *)
(* order, one IR instruction per op; there is one block per label besides  *)
(* block 0, which is named entry.  (Stated of the functions whose calls    *)
(* all have a dest.)                                                       *)
SplitKeepsOps ==
    (SplitDone /\ CallsHaveDest) =>
        LET ops == OpsOf(bril_func)
            lowered == InstrsFrom(func, 0)
        IN  /\ stopped_in # "split_into_blocks"
            /\ Len(lowered) = Len(ops)
            /\ \A i \in 1..Len(ops) :
                  /\ lowered[i].tag = IrTag(ops[i].op)
                  /\ lowered[i].dest = ops[i].dest
            /\ NumBlocks(func) = 1 + Len(bril_func) - Len(ops)
            /\ BlockAt(func, 0).label = "entry"

(* C7: every call op the builder comes to is lowered to a Call whose dest  *)
(* is the input record's dest: present if and only if that one is.         *)
CallDestKept ==
    SplitDone =>
        LET ops == OpsOf(bril_func)
            lowered == InstrsFrom(func, 0)
        IN  \A i \in 1..Len(ops) :
                (ops[i].op = "call" /\ Len(lowered) >= i - 1)
                => /\ Len(lowered) >= i
                   /\ lowered[i].tag = "Call"
                   /\ lowered[i].dest = ops[i].dest

(* C8: on every CFG whose blocks are all reachable from block 0,           *)
(* compute_idom returns with idom[0] = 0 and idom[b] the immediate         *)
(* dominator of every other block b; on the diamond                        *)
(* idom = {0:0, 1:0, 2:1, 3:1, 4:1, 5:4}.                                  *)
IdomIsImmediateDominator ==
    (IdomDone /\ AllReachable(func)) =>
        /\ stopped_in # "compute_idom"
        /\ DOMAIN idom = BlockIds(func)
        /\ idom[0] = 0
        /\ \A b \in BlockIds(func) \ {0} :
              idom[b] = ImmediateDominator(func, b)
        /\ bril_func = DiamondProgram =>
              idom = [b \in 0..5 |-> <<0, 0, 1, 1, 1, 4>>[b + 1]]

(* C9: on every CFG whose blocks are all reachable, compute_df returns     *)
(* with, for each block n, exactly the blocks of the dominance frontier    *)
(* of n, each listed once; on the diamond DF(2) = [4] and DF(3) = [4].     *)
(* (Stated of the CFGs whose entry block has no predecessor.)              *)
DfIsDominanceFrontier ==
    (DfDone /\ AllReachable(func) /\ BlockAt(func, 0).preds = <<>>) =>
        /\ stopped_in # "compute_df"
        /\ \A n \in BlockIds(func) :
              /\ SeqToSet(MapGet(dom_frontier, n)) = DominanceFrontier(func, n)
              /\ NoDuplicates(MapGet(dom_frontier, n))
        /\ bril_func = DiamondProgram =>
              /\ MapGet(dom_frontier, 2) = <<4>>
              /\ MapGet(dom_frontier, 3) = <<4>>

(* C10: after build_dom_tree, b is listed under p in dom_tree exactly once *)
(* if idom[b] = p and b # p, and not at all otherwise, so the entry block  *)
(* is nobody's child; on the diamond dom_tree(1) = {2,3,4} and             *)
(* dom_tree(4) = {5}.                                                      *)
DomTreeMatchesIdom ==
    pc = "done" =>
        /\ DOMAIN dom_tree \subseteq DOMAIN idom
        /\ \A p, b \in DOMAIN idom :
              Count(MapGet(dom_tree, p), b)
                  = IF idom[b] = p /\ b # p THEN 1 ELSE 0
        /\ bril_func = DiamondProgram =>
              /\ SeqToSet(MapGet(dom_tree, 1)) = {2, 3, 4}
              /\ SeqToSet(MapGet(dom_tree, 4)) = {5}

\* the dominator tree of the diamond has been built
DomTreeMatchesIdomWitness ==
    /\ pc = "done"
    /\ bril_func = DiamondProgram
    /\ Len(MapGet(dom_tree, 1)) = 3
    /\ MapGet(dom_tree, 4) = <<5>>

----------------------------------------------------------------------------
(* The pass manager: bril-passes/src/pass_manager.rs.                      *)
(*                                                                         *)
(* A registered pass is a Box<dyn FunctionPass>; all the manager sees of   *)
(* it is the bool run_on_function returns.  A pass is therefore the        *)
(* function from the functions of the module (1..nf) to what it reports    *)
(* on each.                                                                *)

\* most functions in a module
MaxFuncs == 2

\* most passes registered with add_pass
MaxPasses == 3

\* number of functions of the module
NumFuncs == Len(ran)

\* PassManager::new, then add_pass once per pass, then run is entered
PmInit ==
    /\ \E np \in 0..MaxPasses, nf \in 0..MaxFuncs :
          /\ passes \in [1..np -> [1..nf -> BOOLEAN]]
          /\ ran = [f \in 1..nf |-> <<>>]
    /\ pm_func = 1
    /\ pm_pass = 1
    /\ OnlyPm

\* the body of the inner loop: run the pass, break if it reports no change
RunOnFunction ==
    /\ pm_func <= NumFuncs
    /\ pm_pass <= Len(passes)
    /\ ran' = [ran EXCEPT ![pm_func] = Append(@, pm_pass)]
    /\ LET changed == passes[pm_pass][pm_func]
       IN  IF ~changed
           THEN pm_func' = pm_func + 1 /\ pm_pass' = 1
           ELSE pm_pass' = pm_pass + 1 /\ UNCHANGED pm_func
    /\ UNCHANGED <<not_pm_vars, passes>>

\* the inner loop has gone through every pass: the next function
NextFunction ==
    /\ pm_func <= NumFuncs
    /\ pm_pass > Len(passes)
    /\ pm_func' = pm_func + 1
    /\ pm_pass' = 1
    /\ UNCHANGED <<not_pm_vars, passes, ran>>

PmNext ==
    \/ RunOnFunction
    \/ NextFunction

SpecPm == PmInit /\ [][PmNext]_vars

\* run has returned
PmDone == pm_func > NumFuncs /\ pm_func > 0

\* C11: when PassManager::run returns, every registered pass has run on
\* every function exactly once and in registration order, whatever the
\* passes reported.
EveryPassRunsOnce ==
    PmDone => \A f \in 1..NumFuncs : ran[f] = [i \in 1..Len(passes) |-> i]

----------------------------------------------------------------------------
(* i64.  A value is its two's-complement bit pattern, held as four 16-bit  *)
(* limbs, most significant first, so that the arithmetic keeps the width   *)
(* of the source's integers.                                               *)

LIMB == 65536

\* the i64 of a small integer, -32768 < n < 32768
I64Of(n) ==
    IF n >= 0 THEN <<0, 0, 0, n>> ELSE <<65535, 65535, 65535, LIMB + n>>

I64_MAX == <<32767, 65535, 65535, 65535>>

I64_MIN == <<32768, 0, 0, 0>>

IsNegative(v) == v[1] >= 32768

\* i64::wrapping_add
WrappingAdd(a, b) ==
    LET s4 == a[4] + b[4]
        s3 == a[3] + b[3] + (s4 \div LIMB)
        s2 == a[2] + b[2] + (s3 \div LIMB)
        s1 == a[1] + b[1] + (s2 \div LIMB)
    IN  <<s1 % LIMB, s2 % LIMB, s3 % LIMB, s4 % LIMB>>

\* whether a + b leaves the range of i64
AddOverflows(a, b) ==
    /\ IsNegative(a) = IsNegative(b)
    /\ IsNegative(WrappingAdd(a, b)) # IsNegative(a)

\* i64::wrapping_neg
WrappingNeg(a) ==
    WrappingAdd(<<65535 - a[1], 65535 - a[2], 65535 - a[3], 65535 - a[4]>>,
                I64Of(1))

\* i64::wrapping_sub
WrappingSub(a, b) == WrappingAdd(a, WrappingNeg(b))

\* bit i of the pattern, bit 0 the least significant
BitOf(v, i) ==
    LET limb == v[4 - (i \div 16)]
        k == i % 16
    IN  (limb \div (2 ^ k)) % 2

\* a < b, both read as unsigned 64-bit numbers
ULess(a, b) ==
    \E i \in 1..4 : a[i] < b[i] /\ \A j \in 1..(i - 1) : a[j] = b[j]

\* x * y of two limbs as <<high limb, low limb>>, through 8-bit halves
MulLimb(x, y) ==
    LET xh == x \div 256
        xl == x % 256
        yh == y \div 256
        yl == y % 256
        mid == xh * yl + xl * yh
        low == xl * yl + (mid % 256) * 256
    IN  <<xh * yh + (mid \div 256) + (low \div LIMB), low % LIMB>>

\* i64::wrapping_mul: the low four limbs of the schoolbook product
WrappingMul(a, b) ==
    LET P(i, j) == MulLimb(a[i], b[j])
        s4 == P(4, 4)[2]
        s3 == P(4, 4)[1] + P(3, 4)[2] + P(4, 3)[2]
        s2 == P(3, 4)[1] + P(4, 3)[1] + P(2, 4)[2] + P(4, 2)[2] + P(3, 3)[2]
              + (s3 \div LIMB)
        s1 == P(2, 4)[1] + P(4, 2)[1] + P(3, 3)[1] + P(1, 4)[2] + P(4, 1)[2]
              + P(2, 3)[2] + P(3, 2)[2] + (s2 \div LIMB)
    IN  <<s1 % LIMB, s2 % LIMB, s3 % LIMB, s4>>

\* n / d of unsigned 64-bit numbers, d # 0, by restoring division; qr is
\* <<quotient, remainder>> so far
RECURSIVE UDivFrom(_, _, _, _)
UDivFrom(n, d, i, qr) ==
    IF i < 0 THEN qr[1]
    ELSE LET r == WrappingAdd(WrappingAdd(qr[2], qr[2]), I64Of(BitOf(n, i)))
             q == WrappingAdd(qr[1], qr[1])
         IN  IF ULess(r, d)
             THEN UDivFrom(n, d, i - 1, <<q, r>>)
             ELSE UDivFrom(n, d, i - 1,
                           <<WrappingAdd(q, I64Of(1)), WrappingSub(r, d)>>)

Magnitude(v) == IF IsNegative(v) THEN WrappingNeg(v) ELSE v

\* i64::wrapping_div, b # 0: the quotient truncated toward zero
WrappingDiv(a, b) ==
    LET q == UDivFrom(Magnitude(a), Magnitude(b), 63,
                      <<I64Of(0), I64Of(0)>>)
    IN  IF IsNegative(a) # IsNegative(b) THEN WrappingNeg(q) ELSE q

----------------------------------------------------------------------------
(* Operand text.  An operand of an IrInstruction is a String: the name of  *)
(* a variable, or, once constant propagation has rewritten it, the decimal *)
(* text of an integer.  Strings are atoms here, so i64::to_string and      *)
(* str::parse::<i64> are tables over the texts the model uses.             *)

\* <<value, its to_string()>>
DecimalTexts ==
    { <<I64Of(0), "0">>, <<I64Of(1), "1">>, <<I64Of(2), "2">>,
      <<I64Of(-1), "-1">>, <<I64Of(-2), "-2">>,
      <<I64_MAX, "9223372036854775807">>,
      <<I64_MIN, "-9223372036854775808">> }

\* texts parse accepts that to_string never produces
SignedTexts == { <<I64Of(1), "+1">> }

\* i64::to_string
I64ToString(v) == (CHOOSE p \in DecimalTexts : p[1] = v)[2]

\* str::parse::<i64>, Ok(v) as <<v>> and Err as <<>>
ParseI64(t) ==
    IF \E p \in DecimalTexts \cup SignedTexts : p[2] = t
    THEN <<(CHOOSE p \in DecimalTexts \cup SignedTexts : p[2] = t)[1]>>
    ELSE <<>>

----------------------------------------------------------------------------
(* The passes: bril-passes/src/constant_propagation.rs and                 *)
(* constant_folding.rs.  A Literal is Literal::Int(v), held as v.          *)

IsArith(ir) == ir.tag \in {"Add", "Mul", "Sub", "Div"}

\* const_env.get(name) as text: the operand rewritten if the map has it
Rewritten(const_env, name) ==
    IF name \in DOMAIN const_env THEN I64ToString(const_env[name]) ELSE name

\* PropagateInstr with an arithmetic arm that also records the destination
\* of an Add of two integer texts as a constant (mutant)
PropagateInstrThroughArith(const_env, ir) ==
    CASE ir.tag = "Const" ->
            [const_env |-> MapInsert(const_env, ir.dest[1], ir.value[1]),
             ir |-> ir]
      [] IsArith(ir) ->
            [const_env |->
                IF /\ ir.tag = "Add"
                   /\ ParseI64(ir.args[1]) # <<>>
                   /\ ParseI64(ir.args[2]) # <<>>
                THEN MapInsert(const_env, ir.dest[1],
                               WrappingAdd(ParseI64(ir.args[1])[1],
                                           ParseI64(ir.args[2])[1]))
                ELSE const_env,
             ir |-> [ir EXCEPT !.args = <<Rewritten(const_env, ir.args[1]),
                                         Rewritten(const_env, ir.args[2])>>]]
      [] OTHER -> [const_env |-> const_env, ir |-> ir]

\* the match of ConstantPropagationPass on one instruction: the Const arm
\* inserts, the first arithmetic arm rewrites lhs and rhs; the second
\* arithmetic arm (const_env.remove) is never reached, the first one having
\* matched, and no other variant has an arm
PropagateInstr(const_env, ir) ==
    CASE ir.tag = "Const" ->
            [const_env |-> MapInsert(const_env, ir.dest[1], ir.value[1]),
             ir |-> ir]
      [] IsArith(ir) ->
            [const_env |-> const_env,
             ir |-> [ir EXCEPT !.args = <<Rewritten(const_env, ir.args[1]),
                                         Rewritten(const_env, ir.args[2])>>]]
      [] OTHER -> [const_env |-> const_env, ir |-> ir]

\* the two loops of ConstantPropagationPass from instruction i of block b
\* on (b from 1); st is the function and const_env so far
RECURSIVE PropagateFrom(_, _, _)
PropagateFrom(st, b, i) ==
    IF b > Len(st.f.blocks) THEN st
    ELSE IF i > Len(st.f.blocks[b].instrs) THEN PropagateFrom(st, b + 1, 1)
    ELSE LET r == PropagateInstr(st.const_env, st.f.blocks[b].instrs[i])
         IN  PropagateFrom([f |-> [st.f EXCEPT !.blocks[b].instrs[i] = r.ir],
                            const_env |-> r.const_env], b, i + 1)

\* ConstantPropagationPass::run_on_function: the function and the bool
ConstantPropagationPass(f) ==
    [f |-> PropagateFrom([f |-> f, const_env |-> <<>>], 1, 1).f,
     changed |-> TRUE]

\* the match of ConstantFoldPass on one instruction; checks is whether
\* `left + right` traps on overflow (debug build) or wraps (release build)
FoldInstr(ir, checks) ==
    IF ir.tag = "Add"
    THEN LET right == ParseI64(ir.args[2])
             left == ParseI64(ir.args[1])
         IN  IF right = <<>> \/ left = <<>>
             THEN [ir |-> ir, panicked |-> TRUE]
             ELSE IF checks /\ AddOverflows(left[1], right[1])
             THEN [ir |-> ir, panicked |-> TRUE]
             ELSE [ir |-> MkIr("Const", ir.dest, <<>>, <<>>, <<>>,
                               <<WrappingAdd(left[1], right[1])>>),
                   panicked |-> FALSE]
    ELSE [ir |-> ir, panicked |-> FALSE]

\* the two loops of ConstantFoldPass from instruction i of block b on
RECURSIVE FoldFrom(_, _, _, _)
FoldFrom(st, b, i, checks) ==
    IF st.panicked \/ b > Len(st.f.blocks) THEN st
    ELSE IF i > Len(st.f.blocks[b].instrs)
    THEN FoldFrom(st, b + 1, 1, checks)
    ELSE LET r == FoldInstr(st.f.blocks[b].instrs[i], checks)
         IN  FoldFrom([f |-> [st.f EXCEPT !.blocks[b].instrs[i] = r.ir],
                       panicked |-> r.panicked], b, i + 1, checks)

\* ConstantFoldPass::run_on_function: the function, whether it panicked,
\* and the bool
ConstantFoldPass(f, checks) ==
    LET st == FoldFrom([f |-> f, panicked |-> FALSE], 1, 1, checks)
    IN  [f |-> st.f, panicked |-> st.panicked, changed |-> TRUE]

----------------------------------------------------------------------------
(* The functions the passes are run on. *)

\* longest instruction list of a one-block function
MaxOptInstrs == 4

\* most runs of constant propagation on one function
MaxCpRuns == 2

IrConst(d, v) == MkIr("Const", <<d>>, <<>>, <<>>, <<>>, <<v>>)

IrArith(t, d, lhs, rhs) == MkIr(t, <<d>>, <<lhs, rhs>>, <<>>, <<>>, <<>>)

IrAssign(lhs, rhs) == MkIr("Assign", <<lhs>>, <<rhs>>, <<>>, <<>>, <<>>)

IrPrint(values) == MkIr("Print", <<>>, values, <<>>, <<>>, <<>>)

IrRet(args) == MkIr("Ret", <<>>, args, <<>>, <<>>, <<>>)

IrJmp(label) == MkIr("Jmp", <<>>, <<>>, <<label>>, <<>>, <<>>)

IrBr(cond, then_lbl, else_lbl) ==
    MkIr("Br", <<>>, <<cond>>, <<then_lbl, else_lbl>>, <<>>, <<>>)

\* the instructions one-block functions are drawn over: a and b are
\* locals, x is an argument of the function, "1" is a local whose name is
\* the text of an integer
OptInstrs ==
    { IrConst("a", I64Of(1)), IrConst("a", I64_MAX), IrConst("1", I64Of(2)),
      IrArith("Add", "a", "a", "a"), IrArith("Add", "b", "a", "a"),
      IrArith("Sub", "b", "b", "x"), IrAssign("a", "x"), IrPrint(<<"b">>) }

\* the function convert_to_cfg builds from a flat list without labels
OneBlock(instrs) ==
    [AddBlock(NewFunction, "entry") EXCEPT !.blocks[1].instrs = instrs]

\* entry: br c L M;  L: a = const v1; jmp J;  M: a = const v2; jmp J;
\* J: b = t a a; print b; ret
JoinProgram(v1, v2, t) ==
    LET f0 == AddBlock(AddBlock(AddBlock(AddBlock(NewFunction, "entry"),
                                         "L"), "M"), "J")
        f1 == AddEdge(AddEdge(AddEdge(AddEdge(f0, 0, 1), 0, 2), 1, 3), 2, 3)
    IN  [f1 EXCEPT
            !.blocks[1].instrs = <<IrBr("c", "L", "M")>>,
            !.blocks[2].instrs = <<IrConst("a", v1), IrJmp("J")>>,
            !.blocks[3].instrs = <<IrConst("a", v2), IrJmp("J")>>,
            !.blocks[4].instrs = <<IrArith(t, "b", "a", "a"),
                                   IrPrint(<<"b">>), IrRet(<<>>)>>]

\* the texts of integers
LiteralTexts == {p[2] : p \in DecimalTexts \cup SignedTexts}

\* d = t lhs rhs, both operands the text of an integer
FoldProgram(t, lhs, rhs) == OneBlock(<<IrArith(t, "d", lhs, rhs)>>)

ArithTags == {"Add", "Sub", "Mul", "Div"}

OptInit ==
    /\ \/ \E n \in 0..MaxOptInstrs :
             \E instrs \in [1..n -> OptInstrs] : function = OneBlock(instrs)
       \/ \E v1, v2 \in {I64Of(1), I64Of(2), I64_MAX}, t \in ArithTags :
             function = JoinProgram(v1, v2, t)
       \/ \E lhs, rhs \in LiteralTexts, t \in ArithTags :
             function = FoldProgram(t, lhs, rhs)
    /\ history = <<>>
    /\ opt_pc = "run"
    /\ overflow_checks \in BOOLEAN
    /\ OnlyOpt

\* the passes of history, in the order they ran
PassesRun == [i \in 1..Len(history) |-> history[i].pass]

RunConstantPropagation ==
    /\ opt_pc = "run"
    /\ Count(PassesRun, "ConstantPropagationPass") < MaxCpRuns
    /\ LET r == ConstantPropagationPass(function)
       IN  /\ function' = r.f
           /\ history' = Append(history,
                                [pass |-> "ConstantPropagationPass",
                                 before |-> function,
                                 changed |-> r.changed])
    /\ UNCHANGED <<not_opt_vars, opt_pc, overflow_checks>>

\* the folder is the last pass run on a function in this model
RunConstantFold ==
    /\ opt_pc = "run"
    /\ LET r == ConstantFoldPass(function, overflow_checks)
       IN  /\ IF r.panicked
              THEN opt_pc' = "panic" /\ UNCHANGED function
              ELSE opt_pc' = "done" /\ function' = r.f
           /\ history' = Append(history, [pass |-> "ConstantFoldPass",
                                          before |-> function,
                                          changed |-> r.changed])
    /\ UNCHANGED <<not_opt_vars, overflow_checks>>

OptNext ==
    \/ RunConstantPropagation
    \/ RunConstantFold

SpecOpt == OptInit /\ [][OptNext]_vars

----------------------------------------------------------------------------
(* What a function computes: the values it prints and returns along one    *)
(* path through its CFG.  A path is the list of the outcomes of the        *)
(* branches taken.  Integer arithmetic wraps (64-bit signed).  An operand  *)
(* that is the text of an integer stands for that integer, any other       *)
(* operand is the variable of that name.                                   *)

\* most branches on a path
MaxBranches == 1

\* most instructions executed on a path
ExecFuel == 12

\* the arguments of the function: x
ArgEnv == [n \in {"x"} |-> I64Of(2)]

\* Some(value) as <<value>>, None if the variable is undefined
ValueOf(env, t) ==
    IF ParseI64(t) # <<>> THEN ParseI64(t)
    ELSE IF t \in DOMAIN env THEN <<env[t]>>
    ELSE <<>>

ArithValue(tag, l, r) ==
    CASE tag = "Add" -> WrappingAdd(l, r)
      [] tag = "Sub" -> WrappingSub(l, r)
      [] tag = "Mul" -> WrappingMul(l, r)
      [] tag = "Div" -> WrappingDiv(l, r)

\* the values of a list of operands, or <<>> in place of the list if one
\* of them is undefined
ValuesOf(env, ts) ==
    IF \E i \in 1..Len(ts) : ValueOf(env, ts[i]) = <<>> THEN <<>>
    ELSE << [i \in 1..Len(ts) |-> ValueOf(env, ts[i])[1]] >>

\* one instruction; st is [b, i, env, out, ret, status, path, fuel]
ExecInstr(f, st, ir) ==
    LET next == [st EXCEPT !.i = @ + 1, !.fuel = @ - 1]
        stop(why) == [st EXCEPT !.status = why]
        goto(label) ==
            IF BlockIndex(f, label) = <<>> THEN stop("no such label")
            ELSE [next EXCEPT !.b = BlockIndex(f, label)[1] + 1, !.i = 1]
    IN  CASE ir.tag = "Const" ->
                [next EXCEPT !.env = MapInsert(@, ir.dest[1], ir.value[1])]
          [] IsArith(ir) ->
                LET vs == ValuesOf(st.env, ir.args)
                IN  IF vs = <<>> THEN stop("undefined")
                    ELSE IF ir.tag = "Div" /\ vs[1][2] = I64Of(0)
                    THEN stop("division by zero")
                    ELSE [next EXCEPT !.env =
                            MapInsert(@, ir.dest[1],
                                      ArithValue(ir.tag, vs[1][1], vs[1][2]))]
          [] ir.tag = "Assign" ->
                LET vs == ValuesOf(st.env, ir.args)
                IN  IF vs = <<>> THEN stop("undefined")
                    ELSE [next EXCEPT !.env =
                            MapInsert(@, ir.dest[1], vs[1][1])]
          [] ir.tag = "Print" ->
                LET vs == ValuesOf(st.env, ir.args)
                IN  IF vs = <<>> THEN stop("undefined")
                    ELSE [next EXCEPT !.out = @ \o vs[1]]
          [] ir.tag = "Ret" ->
                LET vs == ValuesOf(st.env, ir.args)
                IN  IF vs = <<>> THEN stop("undefined")
                    ELSE [st EXCEPT !.ret = vs[1], !.status = "ok"]
          [] ir.tag = "Jmp" -> goto(ir.labels[1])
          [] ir.tag = "Br" ->
                IF st.path = <<>> THEN stop("cut")
                ELSE [goto(IF Head(st.path) THEN ir.labels[1]
                           ELSE ir.labels[2])
                        EXCEPT !.path = Tail(st.path)]
          [] OTHER -> stop("unsupported")

RECURSIVE Exec(_, _)
Exec(f, st) ==
    IF st.status # "running" THEN st
    ELSE IF st.fuel = 0 THEN [st EXCEPT !.status = "cut"]
    ELSE IF st.b > Len(f.blocks) THEN [st EXCEPT !.status = "ok"]
    ELSE IF st.i > Len(f.blocks[st.b].instrs)
    THEN Exec(f, [st EXCEPT !.b = @ + 1, !.i = 1])
    ELSE Exec(f, ExecInstr(f, st, f.blocks[st.b].instrs[st.i]))

\* what is seen of f along path: how it ended, what it printed and returned
Observed(f, path) ==
    LET st == Exec(f, [b |-> 1, i |-> 1, env |-> ArgEnv, out |-> <<>>,
                       ret |-> <<>>, status |-> "running", path |-> path,
                       fuel |-> ExecFuel])
    IN  [status |-> st.status, out |-> st.out, ret |-> st.ret]

\* the instructions of all blocks of an optimized function, in block order
RECURSIVE AllInstrs(_, _)
AllInstrs(f, b) ==
    IF b > Len(f.blocks) THEN <<>>
    ELSE f.blocks[b].instrs \o AllInstrs(f, b + 1)

\* a destination of f is spelled like an integer
NumeralDest(f) ==
    \E ir \in SeqToSet(AllInstrs(f, 1)) :
        ir.dest # <<>> /\ ParseI64(ir.dest[1]) # <<>>

\* the function the passes were first given
Original == IF history = <<>> THEN function ELSE history[1].before

\* the function after the i-th run of history
After(i) == IF i = Len(history) THEN function ELSE history[i + 1].before

\* C12: constant propagation and constant folding preserve semantics: on
\* every path on which the original function runs to its end, the function
\* the passes leave prints and returns the same values.  (Stated for
\* functions whose variables are not spelled like integers, so that a
\* rewritten operand cannot be mistaken for a variable.)
PassesPreserveSemantics ==
    (opt_pc \in {"run", "done"} /\ ~NumeralDest(Original)) =>
        \A path \in [1..MaxBranches -> BOOLEAN] :
            Observed(Original, path).status = "ok" =>
                Observed(function, path) = Observed(Original, path)

\* a Const of f names its destination by the text of an integer
NumeralConst(f) ==
    \E ir \in SeqToSet(AllInstrs(f, 1)) :
        ir.tag = "Const" /\ ParseI64(ir.dest[1]) # <<>>

\* runs i and i + 1 of history were both constant propagation
CpTwice(i) ==
    /\ history[i].pass = "ConstantPropagationPass"
    /\ history[i + 1].pass = "ConstantPropagationPass"

\* C13 as stated: constant propagation is idempotent, a second run on the
\* output of the first leaves every function unchanged.
CpIdempotent ==
    \A i \in 1..(Len(history) - 1) : CpTwice(i) => After(i + 1) = After(i)

\* C13, amended: a second run of constant propagation leaves the function
\* unchanged if no Const of the function names its destination by the text
\* of an integer.
CpIdempotentOnPlainNames ==
    ~NumeralConst(Original) => CpIdempotent

\* two runs on a function with plain names, the first of which rewrote an
\* operand
CpIdempotentWitness ==
    /\ Len(history) = 2
    /\ CpTwice(1)
    /\ ~NumeralConst(Original)
    /\ After(1) # Original
    /\ After(2) = After(1)

\* an arithmetic instruction of two integer texts, the second not 0
Foldable(ir) ==
    /\ IsArith(ir)
    /\ ParseI64(ir.args[1]) # <<>>
    /\ ParseI64(ir.args[2]) # <<>>
    /\ ParseI64(ir.args[2])[1] # I64Of(0)

\* the last run of history was the folder
FoldRan == history # <<>> /\ history[Len(history)].pass = "ConstantFoldPass"

\* the function the folder was given
Unfolded == history[Len(history)].before

\* C14: given a function whose arithmetic instructions all have two
\* integer texts as operands, the second not 0, the folder does not fail
\* and leaves Const(d, v) in place of each `d = op a b`, v the wrapping
\* 64-bit result of op(a, b), for op add, sub, mul and div alike.
FoldsEveryOperator ==
    LET instrs == AllInstrs(Unfolded, 1)
    IN  (/\ FoldRan
         /\ \A i \in 1..Len(instrs) : IsArith(instrs[i]) => Foldable(instrs[i]))
        => /\ opt_pc = "done"
           /\ \A i \in 1..Len(instrs) :
                 IsArith(instrs[i]) =>
                    AllInstrs(function, 1)[i] =
                       IrConst(instrs[i].dest[1],
                               ArithValue(instrs[i].tag,
                                          ParseI64(instrs[i].args[1])[1],
                                          ParseI64(instrs[i].args[2])[1]))

----------------------------------------------------------------------------
(* Dead-code removal.  IrInstruction::defs and IrInstruction::uses are     *)
(* bril-ir/src/cfg.rs; the pass itself is what section 4.6 of the          *)
(* specification describes: compute the set U of the names some            *)
(* instruction uses, drop every defining instruction without side effects  *)
(* whose definition is not in U, and repeat until a traversal removes      *)
(* nothing.                                                                *)

\* longest instruction list dead-code removal is run on
MaxDceInstrs == 4

\* IrInstruction::defs: the destination of the variants that have one
Defs(ir) ==
    IF ir.tag \in {"Add", "Sub", "Mul", "Div", "Eq", "Lt", "Gt", "Le", "Ge",
                   "Or", "And", "Not", "Const", "Assign", "Phi", "Call"}
    THEN ir.dest
    ELSE <<>>

\* IrInstruction::uses: there is no arm for Assign, which falls to `_`
Uses(ir) ==
    CASE ir.tag \in {"Add", "Sub", "Mul", "Div", "Eq", "Lt", "Gt", "Ge",
                     "Le", "Or", "And"} -> <<ir.args[1], ir.args[2]>>
      [] ir.tag \in {"Not", "Br", "Call", "Ret", "Phi", "Print"} -> ir.args
      [] OTHER -> <<>>

\* the side-effecting instructions of section 4.6 (Store is not a variant
\* of IrInstruction)
SideEffecting(ir) == ir.tag \in {"Print", "Call", "Ret", "Br", "Jmp"}

\* U: the names used anywhere in f, from every instruction's uses view
UsedNames(f) ==
    UNION {SeqToSet(Uses(ir)) : ir \in SeqToSet(AllInstrs(f, 1))}

\* whether a traversal drops ir
Dead(ir, U) ==
    /\ Defs(ir) # <<>>
    /\ Defs(ir)[1] \notin U
    /\ ~SideEffecting(ir)

\* instrs without its dead instructions
RECURSIVE Retain(_, _)
Retain(instrs, U) ==
    IF instrs = <<>> THEN <<>>
    ELSE (IF Dead(Head(instrs), U) THEN <<>> ELSE <<Head(instrs)>>)
         \o Retain(Tail(instrs), U)

\* one traversal of the function
DceTraversal(f) ==
    [f EXCEPT !.blocks =
        [b \in 1..Len(f.blocks) |->
            [f.blocks[b] EXCEPT !.instrs = Retain(@, UsedNames(f))]]]

\* a call with a destination and no arguments
IrCall(d) == MkIr("Call", <<d>>, <<>>, <<>>, <<"f">>, <<>>)

\* the instructions dead-code removal is run on
DceInstrs ==
    { IrConst("a", I64Of(1)), IrAssign("b", "a"),
      IrArith("Add", "b", "a", "a"), IrArith("Mul", "c", "b", "b"),
      IrCall("c"), IrPrint(<<"b">>), IrRet(<<"c">>) }

DceInit ==
    /\ \E n \in 0..MaxDceInstrs :
          \E instrs \in [1..n -> DceInstrs] : function = OneBlock(instrs)
    /\ history = <<>>
    /\ opt_pc = "dce"
    /\ overflow_checks = FALSE
    /\ OnlyOpt

\* a traversal that removes something
DceRemove ==
    /\ opt_pc = "dce"
    /\ DceTraversal(function) # function
    /\ function' = DceTraversal(function)
    /\ history' = Append(history, [pass |-> "DeadCodeRemovalPass",
                                   before |-> function])
    /\ UNCHANGED <<not_opt_vars, opt_pc, overflow_checks>>

\* the traversal that removes nothing: the fixed point
DceFinish ==
    /\ opt_pc = "dce"
    /\ DceTraversal(function) = function
    /\ opt_pc' = "done"
    /\ UNCHANGED <<not_opt_vars, function, history, overflow_checks>>

DceNext ==
    \/ DceRemove
    \/ DceFinish

SpecDce == DceInit /\ [][DceNext]_vars

\* the names an instruction reads, the source of an Assign included
Reads(ir) == IF ir.tag = "Assign" THEN ir.args ELSE Uses(ir)

\* the names read anywhere in f
ReadNames(f) == UNION {SeqToSet(Reads(ir)) : ir \in SeqToSet(AllInstrs(f, 1))}

\* the instructions of the original function that are gone from function
Removed ==
    {ir \in SeqToSet(AllInstrs(Original, 1)) :
        Count(AllInstrs(function, 1), ir) < Count(AllInstrs(Original, 1), ir)}

\* C15: at the fixed point of dead-code removal every remaining defining
\* instruction has its destination among the names read in the function or
\* is side-effecting, and no removed instruction defines a name that a
\* remaining instruction still reads (the source of an Assign counts).
DceKeepsUsedDefs ==
    (opt_pc = "done" /\ history # <<>>) =>
        /\ \A ir \in SeqToSet(AllInstrs(function, 1)) :
              Defs(ir) # <<>> =>
                 Defs(ir)[1] \in ReadNames(function) \/ SideEffecting(ir)
        /\ \A ir \in Removed : Defs(ir)[1] \notin ReadNames(function)

----------------------------------------------------------------------------
(* The register allocator: riscv-backend/src/machine_ir.rs and             *)
(* register_alloc.rs.  A VReg is a string: "v1", "v2", ... for             *)
(* VReg::Virtual(i), the ABI name for a fixed register.                    *)

\* longest instruction list of a machine function
MaxMachineInstrs == 3

\* ALL_REGS: every fixed register but S0
ALL_REGS ==
    <<"T0", "T1", "T2", "T3", "T4", "T5", "T6",
      "A0", "A1", "A2", "A3", "A4", "A5", "A6", "A7",
      "S1", "S2", "S3", "S4", "S5", "S6", "S7", "S8", "S9", "S10", "S11",
      "RA", "SP", "FP", "GP">>

\* a MachineInstr: rd is an Option, rs the source registers in order
MkMachine(o, rd, rs) == [op |-> o, rd |-> rd, rs |-> rs]

\* MachineInstr::defs
MachineDefs(instr) ==
    IF instr.op \in {"Add", "Addi", "Mul", "Sub", "Div", "Mv", "Li"}
    THEN instr.rd
    ELSE <<>>

\* MachineInstr::uses: Ret, Print and Beqz fall to `_`
MachineUses(instr) ==
    CASE instr.op \in {"Add", "Mul", "Sub", "Beq", "Div"} ->
            <<instr.rs[1], instr.rs[2]>>
      [] instr.op \in {"Addi", "Mv"} -> <<instr.rs[1]>>
      [] OTHER -> <<>>

\* intervals.entry(r).or_insert(Interval { start: pos, end: pos })
EntryOrInsert(ivs, r, pos) ==
    IF r \in DOMAIN ivs THEN ivs
    ELSE MapInsert(ivs, r, [start |-> pos, end |-> pos])

Min(a, b) == IF a < b THEN a ELSE b

Max(a, b) == IF a > b THEN a ELSE b

\* the loop over instr.defs(): start = min(start, pos)
RECURSIVE DefsInto(_, _, _)
DefsInto(ivs, defs, pos) ==
    IF defs = <<>> THEN ivs
    ELSE LET e == EntryOrInsert(ivs, Head(defs), pos)
         IN  DefsInto([e EXCEPT ![Head(defs)].start = Min(@, pos)],
                      Tail(defs), pos)

\* the loop over instr.uses(): end = max(end, pos)
RECURSIVE UsesInto(_, _, _)
UsesInto(ivs, uses, pos) ==
    IF uses = <<>> THEN ivs
    ELSE LET e == EntryOrInsert(ivs, Head(uses), pos)
         IN  UsesInto([e EXCEPT ![Head(uses)].end = Max(@, pos)],
                      Tail(uses), pos)

\* the instructions of all blocks in order: an instruction's index in this
\* list, less one, is its instrs_global_pos
RECURSIVE FlatInstrs(_)
FlatInstrs(blocks) ==
    IF blocks = <<>> THEN <<>> ELSE Head(blocks) \o FlatInstrs(Tail(blocks))

\* the second loop of build_intervals from flat position pos on
RECURSIVE IntervalsFrom(_, _, _)
IntervalsFrom(ivs, instrs, pos) ==
    IF pos >= Len(instrs) THEN ivs
    ELSE LET instr == instrs[pos + 1]
         IN  IntervalsFrom(UsesInto(DefsInto(ivs, MachineDefs(instr), pos),
                                    MachineUses(instr), pos),
                           instrs, pos + 1)

\* LinearScan::build_intervals
BuildIntervalsOf(blocks) == IntervalsFrom(<<>>, FlatInstrs(blocks), 0)

\* the instructions machine functions are drawn over
MachineInstrs ==
    { MkMachine("Li", <<"v1">>, <<>>), MkMachine("Li", <<"v2">>, <<>>),
      MkMachine("Add", <<"v3">>, <<"v1", "v2">>),
      MkMachine("Addi", <<"v1">>, <<"v1">>),
      MkMachine("Mv", <<"A0">>, <<"v3">>),
      MkMachine("Print", <<>>, <<"v2">>),
      MkMachine("Ret", <<"A0">>, <<>>) }

RaInit ==
    /\ \E n \in 0..MaxMachineInstrs :
          \E instrs \in [1..n -> MachineInstrs], k \in 0..n :
             mf = <<SubSeq(instrs, 1, k), SubSeq(instrs, k + 1, n)>>
    /\ intervals = <<>>
    /\ live_intervals = <<>>
    /\ active_alloc_intervals = <<>>
    /\ free_regs = <<>>
    /\ ra_pc = "build"
    /\ ra_i = 0
    /\ OnlyRa

BuildIntervals ==
    /\ ra_pc = "build"
    /\ intervals' = BuildIntervalsOf(mf)
    /\ ra_pc' = "sort"
    /\ UNCHANGED <<not_ra_vars, mf, live_intervals, active_alloc_intervals,
                   free_regs, ra_i>>

\* linear_scan up to its loop: the intervals are collected in the order the
\* HashMap yields them and sorted by start (a stable sort), so intervals of
\* equal start come in an order the code does not fix
LinearScanSort ==
    /\ ra_pc = "sort"
    /\ \E order \in Orders(DOMAIN intervals) :
          /\ \A i \in 1..(Len(order) - 1) :
                intervals[order[i]].start <= intervals[order[i + 1]].start
          /\ live_intervals' =
                [i \in 1..Len(order) |->
                    [vreg |-> order[i], interval |-> intervals[order[i]],
                     mark_spill |-> <<>>]]
    /\ active_alloc_intervals' = <<>>
    /\ free_regs' = ALL_REGS
    /\ ra_i' = 1
    /\ ra_pc' = "scan"
    /\ UNCHANGED <<not_ra_vars, mf, intervals>>

\* active_alloc_intervals.retain(|old_iv| old_iv.interval.end >= start)
RECURSIVE RetainActive(_, _)
RetainActive(active, start) ==
    IF active = <<>> THEN <<>>
    ELSE (IF Head(active).interval.end < start THEN <<>>
          ELSE <<Head(active)>>)
         \o RetainActive(Tail(active), start)

\* one iteration of the loop of linear_scan: the retain is all of its body
ScanInterval ==
    /\ ra_pc = "scan"
    /\ ra_i <= Len(live_intervals)
    /\ active_alloc_intervals' =
          RetainActive(active_alloc_intervals,
                       live_intervals[ra_i].interval.start)
    /\ ra_i' = ra_i + 1
    /\ UNCHANGED <<not_ra_vars, mf, intervals, live_intervals, free_regs,
                   ra_pc>>

\* the loop is over and linear_scan returns
LinearScanReturn ==
    /\ ra_pc = "scan"
    /\ ra_i > Len(live_intervals)
    /\ ra_pc' = "done"
    /\ UNCHANGED <<not_ra_vars, mf, intervals, live_intervals,
                   active_alloc_intervals, free_regs, ra_i>>

RaNext ==
    \/ BuildIntervals
    \/ LinearScanSort
    \/ ScanInterval
    \/ LinearScanReturn

SpecRa == RaInit /\ [][RaNext]_vars

\* iv holds a physical register: LiveIntervals has the fields vreg,
\* interval and mark_spill and none for a register
HasRegister(iv) == "phy_reg" \in DOMAIN iv /\ iv.phy_reg # <<>>

\* C17: when linear_scan returns, every virtual register that has a live
\* interval holds a physical register or a spill mark.
EveryIntervalPlaced ==
    ra_pc = "done" =>
        \A i \in 1..Len(live_intervals) :
            HasRegister(live_intervals[i])
            \/ live_intervals[i].mark_spill # <<>>

----------------------------------------------------------------------------
(* The interpreter's heap: bril-extern/bril/brilirs/src/interp.rs.  A cell *)
(* is an Option: <<>> for Value::Uninitialized, <<v>> for Value::Int(v).   *)
(* A Pointer's offset is an i64 in limbs; usize has 64 bits.               *)

\* most allocations of a run
MaxAllocs == 2

\* most instructions main executes
MaxHeapInstrs == 4

Uninitialized == <<>>

MkPointer(b, o) == [base |-> b, offset |-> o]

\* the result of a heap operation: the heap after it, Ok or the error, and
\* the value an Ok carries
HeapRes(h, res, value) == [heap |-> h, res |-> res, value |-> value]

\* Heap::default
HeapDefault == [memory |-> <<>>, base_num_counter |-> 0]

\* Heap::is_empty
IsEmpty(h) == DOMAIN h.memory = {}

\* FxHashMap::remove
MapRemove(m, k) == [x \in (DOMAIN m) \ {k} |-> m[x]]

\* i64 to usize by try_into: None for a negative value
UsizeOf(v) == IF IsNegative(v) THEN <<>> ELSE <<v>>

\* Heap::alloc
HeapAlloc(h, amount) ==
    IF amount < 0 THEN HeapRes(h, "CannotAllocSize", <<>>)
    ELSE LET base == h.base_num_counter
         IN  HeapRes([memory |->
                          MapInsert(h.memory, base,
                                    [i \in 1..amount |-> Uninitialized]),
                      base_num_counter |-> base + 1],
                     "Ok", <<MkPointer(base, I64Of(0))>>)

\* Heap::free: the left operand of && removes the allocation, then the
\* offset is looked at
HeapFree(h, key) ==
    LET removed == key.base \in DOMAIN h.memory
        after == [h EXCEPT !.memory = MapRemove(@, key.base)]
    IN  IF removed /\ key.offset = I64Of(0)
        THEN HeapRes(after, "Ok", <<>>)
        ELSE HeapRes(after, "IllegalFree", <<>>)

\* Heap::write with `vec.len() >= offset` for its guard
HeapWriteOffByOne(h, key, val) ==
    LET offset == UsizeOf(key.offset)
    IN  IF offset = <<>> THEN HeapRes(h, "InvalidMemoryAccess", <<>>)
        ELSE IF /\ key.base \in DOMAIN h.memory
                /\ ~ULess(I64Of(Len(h.memory[key.base])), offset[1])
        THEN HeapRes(h, "Ok", <<>>)
        ELSE HeapRes(h, "InvalidMemoryAccess", <<>>)

\* Heap::write
HeapWrite(h, key, val) ==
    LET offset == UsizeOf(key.offset)
    IN  IF offset = <<>> THEN HeapRes(h, "InvalidMemoryAccess", <<>>)
        ELSE IF /\ key.base \in DOMAIN h.memory
                /\ ULess(offset[1], I64Of(Len(h.memory[key.base])))
        THEN HeapRes([h EXCEPT !.memory[key.base][offset[1][4] + 1] = val],
                     "Ok", <<>>)
        ELSE HeapRes(h, "InvalidMemoryAccess", <<>>)

\* Heap::read
HeapRead(h, key) ==
    LET offset == UsizeOf(key.offset)
    IN  IF offset = <<>> THEN HeapRes(h, "InvalidMemoryAccess", <<>>)
        ELSE IF /\ key.base \in DOMAIN h.memory
                /\ ULess(offset[1], I64Of(Len(h.memory[key.base])))
        THEN LET val == h.memory[key.base][offset[1][4] + 1]
             IN  IF val = Uninitialized
                 THEN HeapRes(h, "UsingUninitializedMemory", <<>>)
                 ELSE HeapRes(h, "Ok", <<val>>)
        ELSE HeapRes(h, "InvalidMemoryAccess", <<>>)

\* Pointer::add: `self.offset + offset` panics on overflow in a build that
\* checks for it and wraps in one that does not; None is the panic
PointerAdd(p, offset, checks) ==
    IF checks /\ AddOverflows(p.offset, offset) THEN <<>>
    ELSE <<MkPointer(p.base, WrappingAdd(p.offset, offset))>>

\* execute_main once execute has returned Ok, without the heap check
ExecuteMainResultNoLeakCheck(h, io) == IF ~io THEN "IoError" ELSE "Ok"

\* execute_main once execute has returned Ok
ExecuteMainResult(h, io) ==
    IF ~IsEmpty(h) THEN "MemLeak"
    ELSE IF ~io THEN "IoError"
    ELSE "Ok"

\* the sizes main allocates, the offsets it adds, the values it stores
AllocAmounts == {-1, 0, 1, 2}

PtrAddOffsets == {I64Of(-1), I64Of(1), I64_MAX}

StoreValues == {<<0>>, <<1>>}

NoOp == [op |-> "none", key |-> <<>>, res |-> "Ok", before |-> <<>>]

HeapInit ==
    /\ heap = HeapDefault
    /\ state_env = {}
    /\ freed = {}
    /\ last_op = NoOp
    /\ heap_pc = "run"
    /\ main_result = "none"
    /\ instruction_count = 0
    /\ ptr_overflow_checks \in BOOLEAN
    /\ io_ok \in BOOLEAN
    /\ OnlyHeap

Running == heap_pc = "run" /\ instruction_count < MaxHeapInstrs

\* what every heap instruction does with the result r of its heap call:
\* an Err leaves execute, and execute_main, through `?`
Executed(op, key, r) ==
    /\ heap' = r.heap
    /\ last_op' = [op |-> op, key |-> key, res |-> r.res,
                   before |-> heap.memory]
    /\ instruction_count' = instruction_count + 1
    /\ IF r.res = "Ok" THEN UNCHANGED <<heap_pc, main_result>>
       ELSE heap_pc' = "returned" /\ main_result' = r.res

Alloc ==
    /\ Running
    /\ heap.base_num_counter < MaxAllocs
    /\ \E amount \in AllocAmounts :
          LET r == HeapAlloc(heap, amount)
          IN  /\ Executed("alloc", <<>>, r)
              /\ state_env' = state_env \cup SeqToSet(r.value)
    /\ UNCHANGED <<not_heap_vars, freed, ptr_overflow_checks, io_ok>>

Load ==
    /\ Running
    /\ \E key \in state_env : Executed("load", <<key>>, HeapRead(heap, key))
    /\ UNCHANGED <<not_heap_vars, state_env, freed, ptr_overflow_checks,
                   io_ok>>

PtrAdd ==
    /\ Running
    /\ \E key \in state_env, offset \in PtrAddOffsets :
          LET res == PointerAdd(key, offset, ptr_overflow_checks)
          IN  /\ state_env' = state_env \cup SeqToSet(res)
              /\ last_op' = [op |-> "ptradd", key |-> <<key>>,
                             res |-> IF res = <<>> THEN "panic" ELSE "Ok",
                             before |-> heap.memory]
              /\ IF res = <<>>
                 THEN heap_pc' = "returned" /\ main_result' = "panic"
                 ELSE UNCHANGED <<heap_pc, main_result>>
    /\ instruction_count' = instruction_count + 1
    /\ UNCHANGED <<not_heap_vars, heap, freed, ptr_overflow_checks, io_ok>>

StoreTo ==
    /\ Running
    /\ \E key \in state_env, val \in StoreValues :
          Executed("store", <<key>>, HeapWrite(heap, key, val))
    /\ UNCHANGED <<not_heap_vars, state_env, freed, ptr_overflow_checks,
                   io_ok>>

Free ==
    /\ Running
    /\ \E key \in state_env :
          LET r == HeapFree(heap, key)
          IN  /\ Executed("free", <<key>>, r)
              /\ freed' = IF r.res = "Ok" THEN freed \cup {key.base}
                          ELSE freed
    /\ UNCHANGED <<not_heap_vars, state_env, ptr_overflow_checks, io_ok>>

\* main returns: execute gives Ok
ExecuteReturns ==
    /\ heap_pc = "run"
    /\ heap_pc' = "executed"
    /\ last_op' = [op |-> "ret", key |-> <<>>, res |-> "Ok",
                   before |-> heap.memory]
    /\ UNCHANGED <<not_heap_vars, heap, state_env, freed, main_result,
                   instruction_count, ptr_overflow_checks, io_ok>>

\* execute_main after execute: the heap check, the flush, the profile
ExecuteMainReturns ==
    /\ heap_pc = "executed"
    /\ heap_pc' = "returned"
    /\ main_result' = ExecuteMainResult(heap, io_ok)
    /\ UNCHANGED <<not_heap_vars, heap, state_env, freed, last_op,
                   instruction_count, ptr_overflow_checks, io_ok>>

HeapNext ==
    \/ Alloc
    \/ Load
    \/ PtrAdd
    \/ StoreTo
    \/ Free
    \/ ExecuteReturns
    \/ ExecuteMainReturns

SpecHeap == HeapInit /\ [][HeapNext]_vars

\* main ran to completion: execute returned Ok
MainCompleted == heap_pc = "returned" /\ last_op.op = "ret"

\* the bases alloc has handed out
Allocated == 0..(heap.base_num_counter - 1)

\* C18: execute_main returns MemLeak exactly when main ran to completion
\* and some allocated base was never successfully freed; when main ran to
\* completion with every allocation freed it returns Ok, unless writing
\* the output fails, which is another error.
MemLeakIffUnfreed ==
    heap_pc = "returned" =>
        /\ main_result = "MemLeak"
              <=> (MainCompleted /\ Allocated \ freed # {})
        /\ (MainCompleted /\ Allocated \subseteq freed /\ io_ok)
              => main_result = "Ok"

\* a run that freed one allocation, left another and reported the leak
MemLeakWitness ==
    /\ heap_pc = "returned"
    /\ main_result = "MemLeak"
    /\ freed # {}

\* the allocation key points into was live before the last instruction
LiveBefore == last_op.key[1].base \in DOMAIN last_op.before

\* C19: free gives Ok and removes exactly the allocation of key.base when
\* that base is live and key.offset is 0, and in every other case gives
\* IllegalFree and leaves the live allocations as they were.
FreeOnlyRemovesOnOk ==
    last_op.op = "free" =>
        LET key == last_op.key[1]
        IN  IF LiveBefore /\ key.offset = I64Of(0)
            THEN /\ last_op.res = "Ok"
                 /\ heap.memory = MapRemove(last_op.before, key.base)
            ELSE /\ last_op.res = "IllegalFree"
                 /\ heap.memory = last_op.before

\* key is within a live allocation: 0 <= offset < n
InBounds ==
    /\ LiveBefore
    /\ \E i \in 0..(Len(last_op.before[last_op.key[1].base]) - 1) :
          last_op.key[1].offset = I64Of(i)

\* C20: a load or store is Ok only through a pointer whose base is live
\* and whose offset is within the allocation; through any other pointer it
\* gives InvalidMemoryAccess and leaves the heap as it was.
AccessOnlyInBounds ==
    last_op.op \in {"load", "store"} =>
        /\ last_op.res = "Ok" => InBounds
        /\ ~InBounds =>
              /\ last_op.res = "InvalidMemoryAccess"
              /\ heap.memory = last_op.before

\* a store one past the end of a live allocation that has cells
AccessWitness ==
    /\ last_op.op = "store"
    /\ LiveBefore
    /\ Len(last_op.before[last_op.key[1].base]) > 0
    /\ last_op.key[1].offset =
          I64Of(Len(last_op.before[last_op.key[1].base]))
    /\ last_op.res = "InvalidMemoryAccess"

----------------------------------------------------------------------------
(* compute_idom on its own, over IrFunctions made by hand as the test's    *)
(* diamond_cfg makes them: labels and preds only, the preds of every block *)
(* in any order.  (Termination, C21.)                                      *)

\* most blocks of a hand-made function
MaxIdomBlocks == 3

\* every list without repetition of blocks among n
PredLists(n) == UNION {Orders(S) : S \in SUBSET (0..(n - 1))}

\* the function whose block i has the preds ps[i + 1]
HandMadeFunction(ps) ==
    [blocks |-> [i \in 1..Len(ps) |->
                    [label |-> LabelOfBlock(i - 1), instrs |-> <<>>,
                     preds |-> ps[i], succs |-> <<>>]],
     label_to_idx |-> [l \in {LabelOfBlock(i) : i \in 0..(Len(ps) - 1)} |->
                          CHOOSE i \in 0..(Len(ps) - 1) : LabelOfBlock(i) = l]]

\* most edges of a hand-made function
MaxIdomEdges == 4

\* the number of edges of the preds lists q
EdgeCount(q) ==
    Cardinality({e \in (DOMAIN q) \X (0..MaxIdomBlocks) : Contains(q[e[1]], e[2])})

\* compute_idom reads the preds of the blocks 1..n-1 only: block 0 is
\* given none
IdomInit ==
    /\ \E n \in 1..MaxIdomBlocks :
          \E q \in [2..n -> PredLists(n)] :
             /\ EdgeCount(q) <= MaxIdomEdges
             /\ func = HandMadeFunction([i \in 1..n |->
                                            IF i = 1 THEN <<>> ELSE q[i]])
    /\ bril_func = <<>>
    /\ pc = "idom"
    /\ cfg_result = "Ok"
    /\ stopped_in = ""
    /\ idom_vec = <<>>
    /\ idom = <<>>
    /\ dom_frontier = <<>>
    /\ dom_tree = <<>>
    /\ OnlyCfg

IdomNext ==
    \/ ComputeIdomStart
    \/ IdomPass
    \/ IdomFinish

\* the function runs on: a step that can be taken is taken
SpecIdom == IdomInit /\ [][IdomNext]_vars /\ WF_vars(IdomNext)

\* the fixed-point loop has met a pass with no change and was left
LoopBroke ==
    /\ pc \in {"df", "panic"}
    /\ LET st == Sweep(idom_vec, func)
       IN  st.status = "ok" /\ ~st.changed

\* C21: compute_idom terminates on every CFG: every climb of the two
\* fingers meets in a block and the fixed-point loop comes to a pass that
\* changes nothing, whatever the order of the block indices.
ComputeIdomTerminates == (pc = "idom") ~> LoopBroke

\* the loop was left on a CFG whose blocks are all reachable, with a back
\* edge and a block whose immediate dominator has the larger index
ComputeIdomTerminatesWitness ==
    /\ LoopBroke
    /\ AllReachable(func)
    /\ \E a, b \in BlockIds(func) :
          a # b /\ Edge(func, a, b) /\ Dominates(func, b, a)
    /\ \E b \in BlockIds(func) \ {0} : ImmediateDominator(func, b) > b

----------------------------------------------------------------------------
(* The walk of constant propagation, instruction by instruction, and what  *)
(* the two passes report and leave alone (C22, C23, C24).                  *)

\* const_env as the walk holds it when it comes to instruction k of the
\* flat list instrs (k from 1)
RECURSIVE ConstEnvBefore(_, _)
ConstEnvBefore(instrs, k) ==
    IF k <= 1 THEN <<>>
    ELSE PropagateInstr(ConstEnvBefore(instrs, k - 1), instrs[k - 1]).const_env

\* the positions before k at which x is defined
DefsBefore(instrs, k, x) ==
    {j \in 1..(k - 1) : Contains(Defs(instrs[j]), x)}

\* the most recent definition of x before k is Const(x, v)
LastDefIsConst(instrs, k, x, v) ==
    /\ DefsBefore(instrs, k, x) # {}
    /\ LET j == CHOOSE j \in DefsBefore(instrs, k, x) :
                   \A i \in DefsBefore(instrs, k, x) : i <= j
       IN  instrs[j].tag = "Const" /\ instrs[j].value = <<v>>

\* the i-th run of history was constant propagation
CpRun(i) == history[i].pass = "ConstantPropagationPass"

\* C22: during constant propagation const_env[x] = v holds at an
\* instruction only if the most recent definition of x earlier in the walk
\* is Const(x, v), so that no operand is rewritten to the literal of a
\* constant that was overwritten.
ConstEnvIsLastDef ==
    \A i \in 1..Len(history) :
        CpRun(i) =>
            LET instrs == AllInstrs(history[i].before, 1)
            IN  \A k \in 1..Len(instrs) :
                    LET const_env == ConstEnvBefore(instrs, k)
                    IN  \A x \in DOMAIN const_env :
                            LastDefIsConst(instrs, k, x, const_env[x])

\* the run on f rewrites an operand: some arithmetic instruction has an
\* operand that const_env holds when the walk comes to it
RewritesOperand(f) ==
    LET instrs == AllInstrs(f, 1)
    IN  \E k \in 1..Len(instrs) :
            /\ IsArith(instrs[k])
            /\ \E a \in 1..2 :
                  instrs[k].args[a] \in DOMAIN ConstEnvBefore(instrs, k)

\* C23: constant propagation returns true if and only if it rewrote at
\* least one operand to a literal during that run.
CpReportsRewrite ==
    \A i \in 1..Len(history) :
        CpRun(i) => (history[i].changed <=> RewritesOperand(history[i].before))

\* both operands of the arithmetic instruction ir are texts of integers
BothLiterals(ir) ==
    ParseI64(ir.args[1]) # <<>> /\ ParseI64(ir.args[2]) # <<>>

\* C24: the folder rewrites an instruction only if it is a binary op of
\* two integer texts, and on a function whose binary ops all have a
\* variable for an operand it completes and leaves the function unchanged.
FoldOnlyLiterals ==
    FoldRan =>
        LET instrs == AllInstrs(Unfolded, 1)
        IN  /\ \A k \in 1..Len(instrs) :
                  AllInstrs(function, 1)[k] # instrs[k] =>
                      IsArith(instrs[k]) /\ BothLiterals(instrs[k])
            /\ (\A k \in 1..Len(instrs) :
                   IsArith(instrs[k]) => ~BothLiterals(instrs[k]))
                  => opt_pc = "done" /\ function = Unfolded

----------------------------------------------------------------------------
(* The two views of an instruction against its fields (C25).               *)

\* the names an instruction reads, in the order it is written: every
\* operand that is a name is held in args
SyntacticReads(ir) == ir.args

\* the instructions a traversal of dead-code removal has asked for their
\* views: those of the function it was run on
Viewed ==
    IF history # <<>> THEN SeqToSet(AllInstrs(Original, 1))
    ELSE IF opt_pc = "done" THEN SeqToSet(AllInstrs(function, 1))
    ELSE {}

\* C25: for every instruction defs() is the name written, at most one, and
\* uses() is exactly the names read, in syntactic order; in particular the
\* uses of Assign(d, s) are [s].
ViewsMatchFields ==
    \A ir \in Viewed :
        /\ Len(Defs(ir)) <= 1
        /\ Defs(ir) = ir.dest
        /\ Uses(ir) = SyntacticReads(ir)

----------------------------------------------------------------------------
(* Live intervals against the positions that write and read a register     *)
(* (C26).  Positions are flat indices from 0.                              *)

\* the register a machine instruction writes
MachineWrites(instr) == MachineDefs(instr)

\* the registers a machine instruction reads: its sources, the arguments
\* of a Print, the condition of a Beqz, and the register of a Ret
MachineReads(instr) ==
    IF instr.op = "Ret" THEN instr.rd ELSE instr.rs

\* the flat positions of mf at which view (writes or reads) names r
PositionsOf(view(_), r) ==
    {p \in 0..(Len(FlatInstrs(mf)) - 1) :
        Contains(view(FlatInstrs(mf)[p + 1]), r)}

SetMin(S) == CHOOSE x \in S : \A y \in S : x <= y

SetMax(S) == CHOOSE x \in S : \A y \in S : x >= y

\* the registers mf names
RegsOf ==
    UNION {SeqToSet(MachineWrites(i)) \cup SeqToSet(MachineReads(i)) :
              i \in SeqToSet(FlatInstrs(mf))}

\* C26: build_intervals gives each register r the interval from the
\* smallest position that defines r to the largest position that uses or
\* defines r, so that every position that writes or reads r lies within
\* it.
IntervalsSpanDefsAndUses ==
    ra_pc \notin {"off", "build"} =>
        \A r \in RegsOf :
            LET W == PositionsOf(MachineWrites, r)
                R == PositionsOf(MachineReads, r)
            IN  /\ r \in DOMAIN intervals
                /\ W # {} => intervals[r].start = SetMin(W)
                /\ intervals[r].end = SetMax(W \cup R)
                /\ \A p \in W \cup R :
                      intervals[r].start <= p /\ p <= intervals[r].end

----------------------------------------------------------------------------
(* The emitter: riscv-backend/src/riscv_emission.rs, for a module of one   *)
(* function of one block.  func_by_intervals is what LinearScan::run       *)
(* returns; that function is not part of register_alloc.rs, and its result *)
(* is taken as section 4.9 of the specification describes it: every        *)
(* virtual register of the function has an entry with a spill mark or a    *)
(* physical register.  A printed line is [op, regs, imm].                  *)

\* longest instruction list of an emitted function
MaxEmitInstrs == 3

\* the bytes of a stack slot
SLOT_BYTES == 8

AsmLine(op, regs, imm) == [op |-> op, regs |-> regs, imm |-> imm]

\* live_intervals[r].phy_reg.unwrap(): None is the panic
PhyRegs(ivs, rs) ==
    IF \E i \in 1..Len(rs) : ivs[rs[i]].phy_reg = <<>> THEN <<>>
    ELSE << [i \in 1..Len(rs) |-> ivs[rs[i]].phy_reg[1]] >>

\* the loop over live_intervals, met in the given order: a spilled
\* register gets the next slot
RECURSIVE SpillSlotsIn(_, _, _)
SpillSlotsIn(st, ivs, order) ==
    IF order = <<>> THEN st
    ELSE SpillSlotsIn(
            IF ivs[Head(order)].mark_spilled
            THEN [spill_slots |->
                     MapInsert(st.spill_slots, Head(order), st.stack_frame),
                  stack_frame |-> st.stack_frame + SLOT_BYTES]
            ELSE st,
            ivs, Tail(order))

\* the match of emit_riscv on one instruction: the lines printed, or the
\* panic of an unwrap
EmitInstrOf(ivs, instr) ==
    CASE instr.op = "Li" ->
            LET p == PhyRegs(ivs, instr.rd)
            IN  IF p = <<>> THEN [panicked |-> TRUE, lines |-> <<>>]
                ELSE [panicked |-> FALSE,
                      lines |-> <<AsmLine("li", p[1], 1)>>]
      [] instr.op \in {"Add", "Mul", "Sub", "Div", "Mv"} ->
            LET p == PhyRegs(ivs, instr.rd \o instr.rs)
            IN  IF p = <<>> THEN [panicked |-> TRUE, lines |-> <<>>]
                ELSE [panicked |-> FALSE,
                      lines |-> <<AsmLine(CASE instr.op = "Add" -> "add"
                                            [] instr.op = "Mul" -> "mul"
                                            [] instr.op = "Sub" -> "sub"
                                            [] instr.op = "Div" -> "div"
                                            [] instr.op = "Mv" -> "mv",
                                          p[1], 0)>>]
      [] instr.op = "Call" ->
            [panicked |-> FALSE, lines |-> <<AsmLine("call", <<>>, 0)>>]
      [] instr.op = "Ret" ->
            LET p == PhyRegs(ivs, instr.rd)
            IN  IF p = <<>> THEN [panicked |-> TRUE, lines |-> <<>>]
                ELSE [panicked |-> FALSE,
                      lines |-> <<AsmLine("ret", p[1], 0)>>]
      [] OTHER -> [panicked |-> FALSE, lines |-> <<>>]

\* the instructions emitted functions are drawn over
EmitInstrs ==
    { MkMachine("Li", <<"v1">>, <<>>),
      MkMachine("Add", <<"v1">>, <<"v1", "v2">>),
      MkMachine("Print", <<>>, <<"v2">>),
      MkMachine("Call", <<>>, <<>>),
      MkMachine("Ret", <<"v1">>, <<>>),
      MkMachine("Ret", <<>>, <<>>) }

\* what the allocator can have left for a register
Allocations ==
    { [mark_spilled |-> FALSE, phy_reg |-> <<"t0">>],
      [mark_spilled |-> FALSE, phy_reg |-> <<"t1">>],
      [mark_spilled |-> TRUE, phy_reg |-> <<>>],
      [mark_spilled |-> TRUE, phy_reg |-> <<"t0">>] }

\* the registers the instructions name
NamedRegs(instrs) ==
    UNION {SeqToSet(i.rd) \cup SeqToSet(i.rs) : i \in SeqToSet(instrs)}

EmitInit ==
    /\ \E n \in 0..MaxEmitInstrs :
          \E instrs \in [1..n -> EmitInstrs] :
             /\ machine_func = instrs
             /\ func_intervals \in [NamedRegs(instrs) -> Allocations]
    /\ spill_slots = <<>>
    /\ stack_frame = 0
    /\ asm = <<AsmLine(".section .text", <<>>, 0),
               AsmLine(".p2align", <<>>, 2),
               AsmLine(".globl", <<>>, 0)>>
    /\ emit_pc = "slots"
    /\ emit_i = 1
    /\ OnlyEmit

\* the loop that gives the spilled registers their slots; the map is met
\* in an order the code does not fix
AssignSpillSlots ==
    /\ emit_pc = "slots"
    /\ \E order \in Orders(DOMAIN func_intervals) :
          LET st == SpillSlotsIn([spill_slots |-> <<>>, stack_frame |-> 0],
                                 func_intervals, order)
          IN  /\ spill_slots' = st.spill_slots
              /\ stack_frame' = st.stack_frame
    /\ emit_pc' = "label"
    /\ UNCHANGED <<not_emit_vars, machine_func, func_intervals, asm, emit_i>>

\* the function label, the adjustment of sp, and the label of the block
EmitLabel ==
    /\ emit_pc = "label"
    /\ asm' = asm \o <<AsmLine("label", <<>>, 0)>>
                  \o (IF stack_frame > 0
                      THEN <<AsmLine("addi", <<"sp", "sp">>, stack_frame)>>
                      ELSE <<>>)
                  \o <<AsmLine(".label", <<>>, 0)>>
    /\ emit_pc' = "instrs"
    /\ UNCHANGED <<not_emit_vars, machine_func, func_intervals, spill_slots,
                   stack_frame, emit_i>>

EmitInstr ==
    /\ emit_pc = "instrs"
    /\ emit_i <= Len(machine_func)
    /\ LET r == EmitInstrOf(func_intervals, machine_func[emit_i])
       IN  /\ asm' = asm \o r.lines
           /\ emit_pc' = IF r.panicked THEN "panic" ELSE emit_pc
    /\ emit_i' = emit_i + 1
    /\ UNCHANGED <<not_emit_vars, machine_func, func_intervals, spill_slots,
                   stack_frame>>

EmitReturn ==
    /\ emit_pc = "instrs"
    /\ emit_i > Len(machine_func)
    /\ emit_pc' = "done"
    /\ UNCHANGED <<not_emit_vars, machine_func, func_intervals, spill_slots,
                   stack_frame, asm, emit_i>>

EmitNext ==
    \/ AssignSpillSlots
    \/ EmitLabel
    \/ EmitInstr
    \/ EmitReturn

SpecEmit == EmitInit /\ [][EmitNext]_vars

\* the sum of the adjustments of sp among the first k lines
RECURSIVE SpChange(_)
SpChange(k) ==
    IF k = 0 THEN 0
    ELSE SpChange(k - 1)
         + (IF asm[k].op = "addi" /\ asm[k].regs = <<"sp", "sp">>
            THEN asm[k].imm ELSE 0)

\* the spilled registers of the function
Spilled == {r \in DOMAIN func_intervals : func_intervals[r].mark_spilled}

\* the line of the function label
LabelLine == CHOOSE k \in 1..Len(asm) : asm[k].op = "label"

\* C27: for a function with spilled registers, N spill bytes in all, the
\* assembly adjusts sp by N right after the function label and undoes it
\* before every ret, so that sp is where it was at each ret; the slots of
\* the spilled registers are the distinct offsets 0, 8, 16, ... below N.
SpillFrameBalanced ==
    (emit_pc = "done" /\ Spilled # {}) =>
        LET N == SLOT_BYTES * Cardinality(Spilled)
        IN  /\ stack_frame = N
            /\ DOMAIN spill_slots = Spilled
            /\ {spill_slots[r] : r \in Spilled}
                  = {SLOT_BYTES * i : i \in 0..(Cardinality(Spilled) - 1)}
            /\ asm[LabelLine + 1].op = "addi"
            /\ asm[LabelLine + 1].imm \in {N, -N}
            /\ \A k \in 1..Len(asm) : asm[k].op = "ret" => SpChange(k) = 0

----------------------------------------------------------------------------
(* SSAFormation::new over a module of several functions (C28): the loop    *)
(* runs compute_idom, compute_df and build_dom_tree on each function in    *)
(* turn, all on the one formation `out`.                                   *)

\* the functions modules are made of: one block; 0 -> 1; 0 -> {1, 2},
\* 1 -> 2; and 0 -> 1 -> 2 -> 1
ModuleFunctions ==
    { HandMadeFunction(<< <<>> >>),
      HandMadeFunction(<< <<>>, <<0>> >>),
      HandMadeFunction(<< <<>>, <<0>>, <<0, 1>> >>),
      HandMadeFunction(<< <<>>, <<0, 2>>, <<1>> >>) }

\* what the formation holds
Formation ==
    [idom |-> idom, dom_tree |-> dom_tree, dom_frontier |-> dom_frontier]

SsaInit ==
    /\ \E n \in 1..MaxFuncs : functions \in [1..n -> ModuleFunctions]
    /\ func = functions[1]
    /\ func_k = 1
    /\ analysed = <<>>
    /\ bril_func = <<>>
    /\ pc = "idom"
    /\ cfg_result = "Ok"
    /\ stopped_in = ""
    /\ idom_vec = <<>>
    /\ idom = <<>>
    /\ dom_frontier = <<>>
    /\ dom_tree = <<>>
    /\ PmIdle /\ OptIdle /\ RaIdle /\ HeapIdle /\ EmitIdle /\ EnvIdle

\* `for func in funcs`: on to the next function, the formation as it is
NextFunc ==
    /\ pc = "done"
    /\ func_k < Len(functions)
    /\ analysed' = Append(analysed, Formation)
    /\ func_k' = func_k + 1
    /\ func' = functions[func_k + 1]
    /\ pc' = "idom"
    /\ UNCHANGED <<bril_func, cfg_result, stopped_in, idom_vec, idom,
                   dom_frontier, dom_tree, functions>>
    /\ UNCHANGED <<pm_vars, opt_vars, ra_vars, heap_vars, emit_vars, env_vars>>

\* the loop is over: Ok(out)
SsaReturn ==
    /\ pc = "done"
    /\ func_k = Len(functions)
    /\ analysed' = Append(analysed, Formation)
    /\ pc' = "returned"
    /\ UNCHANGED <<bril_func, func, cfg_result, stopped_in, idom_vec, idom,
                   dom_frontier, dom_tree, functions, func_k>>
    /\ UNCHANGED <<pm_vars, opt_vars, ra_vars, heap_vars, emit_vars, env_vars>>

SsaNext ==
    \/ ComputeIdomStart
    \/ IdomPass
    \/ IdomFinish
    \/ ComputeDf
    \/ BuildDomTree
    \/ NextFunc
    \/ SsaReturn

SpecSsa == SsaInit /\ [][SsaNext]_vars

\* every entry of the map was is an entry of the map now
EntriesKept(was, now) ==
    \A k \in DOMAIN was : k \in DOMAIN now /\ now[k] = was[k]

\* C28: after SSAFormation::new over a module, what the analysis of each
\* function computed is still in the formation: the idom, dominator tree
\* and dominance frontier entries of an earlier function are not discarded
\* or overwritten by the analysis of a later one.
DominanceKeptPerFunction ==
    pc = "returned" =>
        \A i \in 1..Len(functions) :
            /\ EntriesKept(analysed[i].idom, idom)
            /\ EntriesKept(analysed[i].dom_tree, dom_tree)
            /\ EntriesKept(analysed[i].dom_frontier, dom_frontier)

----------------------------------------------------------------------------
(* The interpreter's Environment (brilirs, interp.rs): one vector of values *)
(* used as a stack of frames.  A Value is the Option of the heap section:   *)
(* Uninitialized or <<v>>.  A variable of a function is a number below the  *)
(* function's num_of_vars, the size its frame is pushed with.               *)

INITIAL_STACK == 50

STACK_GROWTH == 4

MaxDepth == 2

\* num_of_vars of the functions of the program: no variable, one variable,
\* as many as the stack starts with
FrameSizes == {0, 1, INITIAL_STACK}

\* the variables of a frame that the instructions enumerated here name:
\* its first one and its last one
Idents(size) == {i \in 0..(size - 1) : i = 0 \/ i = size - 1}

\* Environment::new
EnvironmentNew(size) ==
    [current_pointer |-> 0,
     current_frame_size |-> size,
     stack_pointers |-> <<>>,
     env |-> [i \in 1..Max(size, INITIAL_STACK) |-> Uninitialized]]

\* Environment::get
EnvGet(e, ident) == e.env[e.current_pointer + ident + 1]

\* Environment::get_from_last_frame
GetFromLastFrame(e, ident) ==
    LET past_pointer == e.stack_pointers[Len(e.stack_pointers)][1]
    IN  e.env[past_pointer + ident + 1]

\* Environment::set
EnvSet(e, ident, val) ==
    [e EXCEPT !.env[e.current_pointer + ident + 1] = val]

\* Vec::resize(new_len, Value::default())
Resize(v, new_len) ==
    [i \in 1..new_len |-> IF i <= Len(v) THEN v[i] ELSE Uninitialized]

\* push_frame that never grows env
PushFrameNoResize(e, size) ==
    [current_pointer |-> e.current_pointer + e.current_frame_size,
     current_frame_size |-> size,
     stack_pointers |-> Append(e.stack_pointers,
                               <<e.current_pointer, e.current_frame_size>>),
     env |-> e.env]

\* Environment::push_frame
PushFrame(e, size) ==
    LET pointer == e.current_pointer + e.current_frame_size
        len == Len(e.env)
    IN  [current_pointer |-> pointer,
         current_frame_size |-> size,
         stack_pointers |-> Append(e.stack_pointers,
                                   <<e.current_pointer, e.current_frame_size>>),
         env |-> IF pointer + size > len
                 THEN Resize(e.env, Max(len * STACK_GROWTH, pointer + size))
                 ELSE e.env]

\* Environment::pop_frame
PopFrame(e) ==
    LET top == e.stack_pointers[Len(e.stack_pointers)]
    IN  [e EXCEPT !.current_pointer = top[1],
                  !.current_frame_size = top[2],
                  !.stack_pointers = SubSeq(e.stack_pointers, 1,
                                            Len(e.stack_pointers) - 1)]

\* the for_each of make_func_args over args zipped with args_as_nums
RECURSIVE CopyArgs(_, _, _, _)
CopyArgs(e, args, args_as_nums, k) ==
    IF k > Len(args) \/ k > Len(args_as_nums) THEN e
    ELSE CopyArgs(EnvSet(e, args_as_nums[k], GetFromLastFrame(e, args[k])),
                  args, args_as_nums, k + 1)

\* make_func_args
MakeFuncArgs(size, args, args_as_nums, e) ==
    CopyArgs(PushFrame(e, size), args, args_as_nums, 1)

\* the values of the frame [pointer, pointer + size)
FrameValues(e, pointer, size) == [i \in 1..size |-> e.env[pointer + i]]

\* the current frame as (pointer, frame_size, values)
CurrentFrame(e) ==
    [pointer |-> e.current_pointer,
     size |-> e.current_frame_size,
     values |-> FrameValues(e, e.current_pointer, e.current_frame_size)]

\* the argument lists of a call, of no argument or of one: variables of the
\* caller, and the variables of the callee that receive them
ArgLists(size) == {<<>>} \cup {<<i>> : i \in Idents(size)}

\* run_input: the Environment of main
EnvInit ==
    /\ \E size \in FrameSizes :
          /\ environment = EnvironmentNew(size)
          /\ frames = <<[set |-> {}, wrote |-> {},
                         caller |-> [pointer |-> 0, size |-> 0, values |-> <<>>]]>>
    /\ env_op = "new"
    /\ got = <<>>
    /\ popped = <<>>
    /\ OnlyEnv

\* an instruction with a destination: state.env.set(dest, value)
SetVar ==
    /\ env_op # "off"
    /\ \E ident \in Idents(environment.current_frame_size), val \in StoreValues :
          /\ environment' = EnvSet(environment, ident, val)
          /\ frames' = [frames EXCEPT ![Len(frames)].set = @ \cup {ident},
                                      ![Len(frames)].wrote = @ \cup {ident}]
    /\ env_op' = "set"
    /\ got' = <<>>
    /\ popped' = <<>>
    /\ UNCHANGED not_env_vars

\* an instruction with an argument: state.env.get(arg)
GetVar ==
    /\ env_op # "off"
    /\ \E ident \in Idents(environment.current_frame_size) :
          got' = <<[ident |-> ident, value |-> EnvGet(environment, ident)]>>
    /\ env_op' = "get"
    /\ popped' = <<>>
    /\ UNCHANGED <<not_env_vars, environment, frames>>

\* Call, first half: make_func_args, then execute runs the callee
CallFunc ==
    /\ env_op # "off"
    /\ Len(frames) < MaxDepth
    /\ \E size \in FrameSizes :
       \E args \in ArgLists(environment.current_frame_size),
          args_as_nums \in ArgLists(size) :
          /\ Len(args) = Len(args_as_nums)
          /\ environment' = MakeFuncArgs(size, args, args_as_nums, environment)
          /\ frames' = Append(frames, [set |-> SeqToSet(args_as_nums),
                                       wrote |-> {},
                                       caller |-> CurrentFrame(environment)])
    /\ env_op' = "push_frame"
    /\ got' = <<>>
    /\ popped' = <<>>
    /\ UNCHANGED not_env_vars

\* Call, second half: the callee returned, state.env.pop_frame()
ReturnFromFunc ==
    /\ env_op # "off"
    /\ environment.stack_pointers # <<>>
    /\ environment' = PopFrame(environment)
    /\ popped' = <<frames[Len(frames)]>>
    /\ frames' = SubSeq(frames, 1, Len(frames) - 1)
    /\ env_op' = "pop_frame"
    /\ got' = <<>>
    /\ UNCHANGED not_env_vars

EnvNext == SetVar \/ GetVar \/ CallFunc \/ ReturnFromFunc

SpecEnv == EnvInit /\ [][EnvNext]_vars

\* the frames [p, p + s) and [q, q + t) share no cell
Apart(p, s, q, t) == p + s <= q \/ q + t <= p \/ s = 0 \/ t = 0

UnsetReadsUninitialized ==
    env_op = "get" =>
        (got[1].ident \notin frames[Len(frames)].set
            => got[1].value = Uninitialized)

============================================================================
